---- MODULE Spec2Model ----
(***************************************************************************)
(* Model of the crop-suitability scoring and ranking engine of             *)
(* crop_forecast_bot: src/models/crop_suitability.py, src/models/          *)
(* economics.py, src/models/indices.py and the recommendation loop of      *)
(* src/bot/crop_recommender_handler.py.                                    *)
(*                                                                         *)
(* Number representation (the code computes in binary floating point; the  *)
(* model computes in exact fixed point):                                   *)
(*   temperatures and GDD totals   tenths of a degree (degree-day)         *)
(*   precipitation                 mm                                      *)
(*   radiation                     MJ/m2                                   *)
(*   soil moisture                 hundredths of field capacity            *)
(*   criterion scores (0..1)       1/SC                                    *)
(*   percentages reported with one decimal (suitability_score,             *)
(*   scores_breakdown, roi_percent, total_risk, final_rating) and yields   *)
(*   (c/ha, one decimal)           tenths                                  *)
(*   GTK, SPI                      hundredths                              *)
(*   money                         roubles                                 *)
(* Python's None is the empty sequence and an optional value v that is     *)
(* present is <<v>>; a dict is a function whose DOMAIN is its key set.     *)
(***************************************************************************)
EXTENDS Integers, Sequences, FiniteSets, TLC

VARIABLES
    CROP_PARAMETERS,        \* crop_suitability.py: catalog, in insertion order
    REGIONAL_COSTS,         \* economics.py: cost table
    MARKET_PRICES,          \* economics.py: price table
    AVERAGE_YIELDS,         \* economics.py: base-yield table
    CROP_GDD_REQUIREMENTS,  \* indices.py: GDD-requirement table
    call,                   \* one direct call of a core function: arguments and result
    input,                  \* per request: what the data collaborators returned
    pc,                     \* per request: position in handle_crop_recommendation_request
    req_indices,            \* per request: result of calculate_all_indices
    req_region_data,        \* per request: result of prepare_region_features
    top3_crops,             \* per request: the list being extended and re-sorted
    crop_index,             \* per request: position of the for loop in top3_crops
    report                  \* per request: the list handed to report generation

tables == <<CROP_PARAMETERS, REGIONAL_COSTS, MARKET_PRICES, AVERAGE_YIELDS,
            CROP_GDD_REQUIREMENTS>>

requests == <<input, pc, req_indices, req_region_data, top3_crops, crop_index, report>>

vars == <<CROP_PARAMETERS, REGIONAL_COSTS, MARKET_PRICES, AVERAGE_YIELDS,
          CROP_GDD_REQUIREMENTS, call, input, pc, req_indices, req_region_data,
          top3_crops, crop_index, report>>

None == <<>>
Some(v) == <<v>>

\* an optional argument: absent, or one of the values
Opt(values) == {None} \cup {Some(v) : v \in values}

\* the dict holding the keys whose option is present
DictOf(options) ==
    [k \in {x \in DOMAIN options : options[x] # None} |-> options[k][1]]

\* fixed-point scale of a criterion score in [0, 1]
SC == 1000 * 1000

\* dict.get(key, default)
Get(d, k, default) == IF k \in DOMAIN d THEN d[k] ELSE default

Min(a, b) == IF a <= b THEN a ELSE b
Max(a, b) == IF a >= b THEN a ELSE b
Abs(a) == IF a >= 0 THEN a ELSE -a

\* Python round(): n/d rounded to the nearest integer, ties to even (d > 0)
Round(n, d) ==
    LET q == n \div d
        r == n % d
    IN  IF 2 * r < d THEN q
        ELSE IF 2 * r > d THEN q + 1
        ELSE IF q % 2 = 0 THEN q ELSE q + 1

\* round(n * 10^digits / d) by long division, every intermediate within 32 bits
RECURSIVE RoundScaled(_, _, _)
RoundScaled(n, d, digits) ==
    IF digits = 0 THEN Round(n, d)
    ELSE ((n \div d) * (10 ^ digits)) + RoundScaled((n % d) * 10, d, digits - 1)

\* floor(n * 10^digits / d) by long division, every intermediate within 32 bits
\* (n >= 0, d > 0)
RECURSIVE FixDiv(_, _, _)
FixDiv(n, d, digits) ==
    IF digits = 0 THEN n \div d
    ELSE ((n \div d) * (10 ^ digits)) + FixDiv((n % d) * 10, d, digits - 1)

\* the true division n / d in 1/SC
Quotient(n, d) == FixDiv(n, d, 6)

\* floor(a * b / SC) for a, b in 0..SC, every intermediate within 32 bits
MulFix(a, b) == (a * (b \div 1000) + (a * (b % 1000)) \div 1000) \div 1000

\* bool(x) of an optional dict: None is false, a dict (never empty here) is true
Truthy(option) == option # None

(***************************************************************************)
(* np.exp(-z) for z >= 0 given in 1/SC: exp(-z) = exp(-1)^floor(z) *       *)
(* exp(-frac(z)), the second factor by its Taylor series.                  *)
(***************************************************************************)
RECURSIVE ExpSeries(_, _, _, _)
ExpSeries(f, n, term, acc) ==
    IF term = 0 THEN acc
    ELSE LET next == MulFix(term, f) \div n
         IN  ExpSeries(f, n + 1, next,
                       IF n % 2 = 1 THEN acc - next ELSE acc + next)

RECURSIVE ExpPow(_, _)
ExpPow(x, k) == IF k = 0 THEN x ELSE ExpPow(MulFix(x, 367879), k - 1)

ExpNeg(z) == ExpPow(ExpSeries(z % SC, 1, SC, SC), z \div SC)

(***************************************************************************)
(* The static tables as the source initialises them.                       *)
(***************************************************************************)
CropProfile(crop, name_ru, T_opt_range, precip_min, precip_opt, radiation_min, soil_moisture_min, soil_type_pref, frost_tolerance, gdd_requirement) ==
    [crop |-> crop, name_ru |-> name_ru, T_opt_range |-> T_opt_range,
     precip_min |-> precip_min, precip_opt |-> precip_opt,
     radiation_min |-> radiation_min, soil_moisture_min |-> soil_moisture_min,
     soil_type_pref |-> soil_type_pref, frost_tolerance |-> frost_tolerance,
     gdd_requirement |-> gdd_requirement]

\* CROP_PARAMETERS, the fields the engine reads, in the dict's insertion order
InitialCropParameters == <<
    CropProfile("wheat", "Pshenitsa", <<150, 250>>, 400, 600, 4000, 60,
                {"loam", "silty_loam", "clay_loam", "clay"}, -180, 1800),
    CropProfile("corn", "Kukuruza", <<200, 300>>, 500, 700, 5000, 70,
                {"loam", "silty_loam", "sandy_loam"}, 0, 2700),
    CropProfile("sunflower", "Podsolnechnik", <<200, 270>>, 400, 550, 4500, 50,
                {"loam", "sandy_loam", "clay_loam"}, -50, 2100),
    CropProfile("soybean", "Soya", <<200, 300>>, 500, 650, 4800, 65,
                {"loam", "silty_loam", "sandy_loam"}, 0, 2500),
    CropProfile("barley", "Yachmen", <<150, 220>>, 350, 550, 3800, 55,
                {"loam", "sandy_loam", "silty_loam"}, -200, 1500),
    CropProfile("rapeseed", "Raps", <<150, 250>>, 450, 650, 4200, 65,
                {"loam", "clay_loam", "silty_loam"}, -150, 2000),
    CropProfile("potato", "Kartofel", <<150, 200>>, 500, 700, 3500, 70,
                {"sandy_loam", "loam"}, -20, 1400),
    CropProfile("sugar_beet", "Sakharnaya svekla", <<180, 250>>, 500, 650, 4500, 70,
                {"loam", "silty_loam", "clay_loam"}, -30, 2000) >>

Costs(seeds, fertilizers, fuel, pesticides, machinery, labor, other) ==
    [seeds |-> seeds, fertilizers |-> fertilizers, fuel |-> fuel,
     pesticides |-> pesticides, machinery |-> machinery, labor |-> labor,
     other |-> other]

InitialRegionalCosts ==
    [wheat      |-> Costs(3500, 8000, 4500, 2000, 3000, 2500, 1500),
     corn       |-> Costs(6000, 12000, 5500, 3000, 4000, 3000, 2000),
     sunflower  |-> Costs(4500, 7000, 5000, 2500, 3500, 2500, 1500),
     soybean    |-> Costs(5000, 6000, 5000, 3500, 3500, 2500, 1500),
     barley     |-> Costs(3000, 7000, 4000, 1800, 2800, 2200, 1200),
     rapeseed   |-> Costs(3500, 10000, 5500, 4000, 3800, 2800, 1800),
     potato     |-> Costs(25000, 15000, 8000, 5000, 6000, 8000, 3000),
     sugar_beet |-> Costs(8000, 12000, 7000, 4500, 5000, 6000, 2500)]

InitialMarketPrices ==
    [wheat |-> 15000, corn |-> 14000, sunflower |-> 30000, soybean |-> 35000,
     barley |-> 13000, rapeseed |-> 32000, potato |-> 20000, sugar_beet |-> 3500]

InitialAverageYields ==
    [wheat |-> 35, corn |-> 55, sunflower |-> 25, soybean |-> 20,
     barley |-> 32, rapeseed |-> 28, potato |-> 250, sugar_beet |-> 450]

\* CROP_GDD_REQUIREMENTS[crop]['total']
InitialGddRequirements ==
    [wheat |-> [total |-> 1800], corn |-> [total |-> 2700],
     sunflower |-> [total |-> 2100], soybean |-> [total |-> 2500],
     barley |-> [total |-> 1500], rapeseed |-> [total |-> 2000],
     potato |-> [total |-> 1400], sugar_beet |-> [total |-> 2000]]

TablesInitial ==
    /\ CROP_PARAMETERS = InitialCropParameters
    /\ REGIONAL_COSTS = InitialRegionalCosts
    /\ MARKET_PRICES = InitialMarketPrices
    /\ AVERAGE_YIELDS = InitialAverageYields
    /\ CROP_GDD_REQUIREMENTS = InitialGddRequirements

(***************************************************************************)
(* crop_suitability.py                                                     *)
(***************************************************************************)
\* CROP_PARAMETERS.keys(), in iteration order
CatalogKeys == [i \in 1..Len(CROP_PARAMETERS) |-> CROP_PARAMETERS[i].crop]

\* crop_name in CROP_PARAMETERS
InCatalog(crop_name) ==
    \E i \in 1..Len(CROP_PARAMETERS) : CROP_PARAMETERS[i].crop = crop_name

\* CROP_PARAMETERS[crop_name]
ParamsOf(crop_name) ==
    CROP_PARAMETERS[CHOOSE i \in 1..Len(CROP_PARAMETERS) :
                        CROP_PARAMETERS[i].crop = crop_name]

\* np.mean([]) of an absent temperature series: every comparison with it is false
NaN == 0 - 1000000

\* the criterion weights, in percent
weights ==
    [temperature |-> 20, precipitation |-> 20, soil |-> 15, gdd |-> 15,
     moisture |-> 10, radiation |-> 10, frost |-> 10]

Criteria == DOMAIN weights

Scored(score, detail) == [score |-> score, detail |-> detail]

\* variant: the deviation penalty without the floor at 0
temperature_score_unclamped(region_data, crop_params) ==
    IF "temperature_avg" \in DOMAIN region_data
    THEN LET T_avg == region_data["temperature_avg"]
             T_opt_min == crop_params.T_opt_range[1]
             T_opt_max == crop_params.T_opt_range[2]
             deviation == Min(Abs(T_avg - T_opt_min), Abs(T_avg - T_opt_max))
         IN  IF T_opt_min <= T_avg /\ T_avg <= T_opt_max
             THEN Scored(SC, "optimal")
             ELSE Scored(SC - deviation * (SC \div 100), "deviation")
    ELSE Scored(SC \div 2, "no_data")

\* 1. temperature
temperature_score(region_data, crop_params) ==
    IF "temperature_avg" \in DOMAIN region_data
    THEN LET T_avg == region_data["temperature_avg"]
             T_opt_min == crop_params.T_opt_range[1]
             T_opt_max == crop_params.T_opt_range[2]
             deviation == Min(Abs(T_avg - T_opt_min), Abs(T_avg - T_opt_max))
         IN  IF T_avg = NaN THEN Scored(0, "deviation")
             ELSE IF T_opt_min <= T_avg /\ T_avg <= T_opt_max
                  THEN Scored(SC, "optimal")
                  ELSE Scored(Max(0, SC - deviation * (SC \div 100)), "deviation")
    ELSE Scored(SC \div 2, "no_data")

\* variant: below the minimum the ratio P / P_min is not halved
precipitation_score_unhalved(region_data, crop_params) ==
    IF "precipitation_annual" \in DOMAIN region_data
       \/ "precipitation_sum" \in DOMAIN region_data
    THEN LET P == Get(region_data, "precipitation_annual",
                      Get(region_data, "precipitation_sum", 0))
             P_opt == crop_params.precip_opt
             P_min == crop_params.precip_min
             d == Abs(P - P_opt)
             gauss == IF 10 * d >= 12 * P_opt THEN 0
                      ELSE ExpNeg(Quotient(100 * d * d, 9 * P_opt * P_opt))
         IN  IF P >= P_min
             THEN Scored(gauss, "suitable")
             ELSE Scored(Quotient(P, P_min), "very_low")
    ELSE Scored(SC \div 2, "no_data")

\* 2. precipitation
precipitation_score(region_data, crop_params) ==
    IF "precipitation_annual" \in DOMAIN region_data
       \/ "precipitation_sum" \in DOMAIN region_data
    THEN LET P == Get(region_data, "precipitation_annual",
                      Get(region_data, "precipitation_sum", 0))
             P_opt == crop_params.precip_opt
             P_min == crop_params.precip_min
             d == Abs(P - P_opt)
             \* ((P - P_opt) / (0.3 * P_opt))**2; from 16 on the Gaussian is below 1/SC
             gauss == IF 10 * d >= 12 * P_opt THEN 0
                      ELSE ExpNeg(Quotient(100 * d * d, 9 * P_opt * P_opt))
         IN  IF P >= P_min
             THEN Scored(gauss,
                         IF P < P_min THEN "insufficient" ELSE "suitable")
             ELSE Scored(Quotient(P, 2 * P_min), "very_low")
    ELSE Scored(SC \div 2, "no_data")

\* 3. soil type
soil_score(region_data, crop_params) ==
    IF "soil_type" \in DOMAIN region_data
    THEN IF region_data["soil_type"] \in crop_params.soil_type_pref
         THEN Scored(SC, "suitable_type")
         ELSE Scored(SC \div 2, "not_optimal_type")
    ELSE Scored(SC \div 2, "no_data")

\* 4. GDD (gdd_actual in tenths, the requirement in whole degree-days)
gdd_score(region_data, crop_params) ==
    IF "gdd" \in DOMAIN region_data
    THEN LET gdd_actual == region_data["gdd"]
             gdd_required == crop_params.gdd_requirement
         IN  IF gdd_actual >= 10 * gdd_required
             THEN Scored(SC, "enough")
             ELSE Scored(Quotient(gdd_actual, 10 * gdd_required), "not_enough")
    ELSE Scored(SC \div 2, "no_data")

\* variant: the moisture ratio without the upper clamp
moisture_score_unclamped(region_data, crop_params) ==
    IF "soil_moisture" \in DOMAIN region_data
    THEN Scored(Quotient(region_data["soil_moisture"], crop_params.soil_moisture_min),
                "moisture")
    ELSE Scored((7 * SC) \div 10, "no_data_assumed")

\* 5. soil moisture
moisture_score(region_data, crop_params) ==
    IF "soil_moisture" \in DOMAIN region_data
    THEN LET W == region_data["soil_moisture"]
             W_min == crop_params.soil_moisture_min
         IN  Scored(Min(SC, Quotient(W, W_min)), "moisture")
    ELSE Scored((7 * SC) \div 10, "no_data_assumed")

\* variant: radiation absent scored as neutral
radiation_score_neutral(region_data, crop_params) ==
    IF "radiation_sum" \in DOMAIN region_data
    THEN LET Q == region_data["radiation_sum"]
             Q_min == crop_params.radiation_min
         IN  IF Q >= Q_min
             THEN Scored(SC, "enough")
             ELSE Scored(Quotient(Q, Q_min), "not_enough")
    ELSE Scored(SC \div 2, "no_data")

\* 6. radiation
radiation_score(region_data, crop_params) ==
    IF "radiation_sum" \in DOMAIN region_data
    THEN LET Q == region_data["radiation_sum"]
             Q_min == crop_params.radiation_min
         IN  IF Q >= Q_min
             THEN Scored(SC, "enough")
             ELSE Scored(Quotient(Q, Q_min), "not_enough")
    ELSE Scored((7 * SC) \div 10, "no_data")

\* variant: frost absent scored as neutral
FrostNeutral == SC \div 2

\* the frost criterion's score when the winter minimum is absent
FrostDefault == (8 * SC) \div 10

\* 7. frost
frost_score(region_data, crop_params) ==
    IF "temperature_min_winter" \in DOMAIN region_data
    THEN LET T_min == region_data["temperature_min_winter"]
             frost_tol == crop_params.frost_tolerance
             deviation == Abs(frost_tol - T_min)
         IN  IF T_min >= frost_tol
             THEN Scored(SC, "no_danger")
             ELSE Scored(Max(0, SC - deviation * (SC \div 100)), "freeze_risk")
    ELSE Scored(FrostDefault, "no_data")

\* the seven criterion evaluations of one crop
criterion(region_data, crop_params) ==
    [temperature   |-> temperature_score(region_data, crop_params),
     precipitation |-> precipitation_score(region_data, crop_params),
     soil          |-> soil_score(region_data, crop_params),
     gdd           |-> gdd_score(region_data, crop_params),
     moisture      |-> moisture_score(region_data, crop_params),
     radiation     |-> radiation_score(region_data, crop_params),
     frost         |-> frost_score(region_data, crop_params)]

\* sum(scores[k] * weights[k] for k in weights.keys()) * 100, in 1/SC percent
final_score_percent(scores) ==
      scores["temperature"] * weights["temperature"]
    + scores["precipitation"] * weights["precipitation"]
    + scores["soil"] * weights["soil"]
    + scores["gdd"] * weights["gdd"]
    + scores["moisture"] * weights["moisture"]
    + scores["radiation"] * weights["radiation"]
    + scores["frost"] * weights["frost"]

\* the band of the unrounded percentage
interpret_suitability(percent) ==
    IF percent >= 80 * SC THEN "high"
    ELSE IF percent >= 60 * SC THEN "good"
    ELSE IF percent >= 40 * SC THEN "moderate"
    ELSE "low"

calculate_suitability_score(region_data, crop_name) ==
    IF ~InCatalog(crop_name) THEN None
    ELSE LET crop_params == ParamsOf(crop_name)
             c == criterion(region_data, crop_params)
             scores == [k \in Criteria |-> c[k].score]
             details == [k \in Criteria |-> c[k].detail]
             percent == final_score_percent(scores)
         IN  Some([crop |-> crop_name,
                   crop_name_ru |-> crop_params.name_ru,
                   suitability_score |-> Round(percent, SC \div 10),
                   interpretation |-> interpret_suitability(percent),
                   scores_breakdown |-> [k \in Criteria |-> Round(scores[k], SC \div 1000)],
                   details |-> details])

\* variant: an insertion that puts equal keys in reverse order
RECURSIVE InsertDescUnstable(_, _, _)
InsertDescUnstable(sorted, x, key) ==
    IF sorted = <<>> THEN <<x>>
    ELSE IF Head(sorted)[key] > x[key]
         THEN <<Head(sorted)>> \o InsertDescUnstable(Tail(sorted), x, key)
         ELSE <<x>> \o sorted

\* list.sort(key=lambda x: x[key], reverse=True): stable, descending
RECURSIVE InsertDesc(_, _, _)
InsertDesc(sorted, x, key) ==
    IF sorted = <<>> THEN <<x>>
    ELSE IF Head(sorted)[key] >= x[key]
         THEN <<Head(sorted)>> \o InsertDesc(Tail(sorted), x, key)
         ELSE <<x>> \o sorted

RECURSIVE SortDesc(_, _)
SortDesc(list, key) ==
    IF list = <<>> THEN <<>>
    ELSE InsertDesc(SortDesc(SubSeq(list, 1, Len(list) - 1), key), list[Len(list)], key)

\* the loop of rank_crops: one result per key whose score is not None
RECURSIVE rank_results(_, _)
rank_results(region_data, keys) ==
    IF keys = <<>> THEN <<>>
    ELSE LET suitability == calculate_suitability_score(region_data, Head(keys))
         IN  (IF suitability # None THEN suitability ELSE <<>>)
             \o rank_results(region_data, Tail(keys))

rank_crops(region_data) ==
    SortDesc(rank_results(region_data, CatalogKeys), "suitability_score")

\* variant: the whole ranking, whatever n
get_top_n_crops_unsliced(region_data, n) == rank_crops(region_data)

\* list[:n]
Slice(list, n) ==
    IF n >= 0 THEN SubSeq(list, 1, Min(n, Len(list)))
    ELSE SubSeq(list, 1, Max(0, Len(list) + n))

get_top_n_crops(region_data, n) == Slice(rank_crops(region_data), n)

(***************************************************************************)
(* indices.py                                                              *)
(***************************************************************************)
\* np.clip(x, lo, hi)
Clip(x, lo, hi) == Min(Max(x, lo), hi)

\* seq[lo] + ... + seq[hi], by halves
RECURSIVE SumRange(_, _, _)
SumRange(seq, lo, hi) ==
    IF lo > hi THEN 0
    ELSE IF lo = hi THEN seq[lo]
    ELSE LET mid == (lo + hi) \div 2
         IN  SumRange(seq, lo, mid) + SumRange(seq, mid + 1, hi)

SumSeq(seq) == SumRange(seq, 1, Len(seq))

\* np.cumsum
CumSum(seq) == [i \in 1..Len(seq) |-> SumRange(seq, 1, i)]

\* variant: the daily value without the cap at T_upper - T_base
calculate_gdd_uncapped(T_avg, T_base, T_upper) ==
    LET gdd_daily == [i \in 1..Len(T_avg) |-> Max(T_avg[i] - T_base, 0)]
        gdd_cumulative == CumSum(gdd_daily)
    IN  [daily_gdd |-> gdd_daily,
         cumulative_gdd |-> gdd_cumulative,
         total_gdd |-> IF Len(gdd_cumulative) > 0
                       THEN gdd_cumulative[Len(gdd_cumulative)] ELSE 0]

\* variant: the daily value without the floor at 0
calculate_gdd_unfloored(T_avg, T_base, T_upper) ==
    LET gdd_daily == [i \in 1..Len(T_avg) |-> Min(T_avg[i] - T_base, T_upper - T_base)]
        gdd_cumulative == CumSum(gdd_daily)
    IN  [daily_gdd |-> gdd_daily,
         cumulative_gdd |-> gdd_cumulative,
         total_gdd |-> IF Len(gdd_cumulative) > 0
                       THEN gdd_cumulative[Len(gdd_cumulative)] ELSE 0]

calculate_gdd(T_avg, T_base, T_upper) ==
    LET gdd_daily == [i \in 1..Len(T_avg) |-> Clip(T_avg[i] - T_base, 0, T_upper - T_base)]
        gdd_cumulative == CumSum(gdd_daily)
    IN  [daily_gdd |-> gdd_daily,
         cumulative_gdd |-> gdd_cumulative,
         total_gdd |-> IF Len(gdd_cumulative) > 0
                       THEN gdd_cumulative[Len(gdd_cumulative)] ELSE 0]

\* the band of the unrounded GTK = precipitation_sum / (0.1 * temperature_sum),
\* the temperature sum in tenths
interpret_gtk(precipitation_sum, temperature_sum) ==
    IF 1000 * precipitation_sum > 16 * temperature_sum THEN "excess"
    ELSE IF 1000 * precipitation_sum >= 13 * temperature_sum THEN "elevated"
    ELSE IF 1000 * precipitation_sum >= 10 * temperature_sum THEN "optimal"
    ELSE IF 1000 * precipitation_sum >= 7 * temperature_sum THEN "insufficient"
    ELSE IF 1000 * precipitation_sum >= 5 * temperature_sum THEN "dry"
    ELSE "severe_drought"

\* variant: a GTK of 0 reported where there is no active temperature
calculate_gtk_zero(precipitation_sum, temperature_sum_above_10) ==
    IF temperature_sum_above_10 <= 0
    THEN [gtk |-> Some(0), interpretation |-> "severe_drought"]
    ELSE [gtk |-> Some(RoundScaled(precipitation_sum * 100, temperature_sum_above_10, 2)),
          interpretation |-> interpret_gtk(precipitation_sum, temperature_sum_above_10),
          precipitation_sum |-> precipitation_sum,
          temperature_sum |-> temperature_sum_above_10]

calculate_gtk(precipitation_sum, temperature_sum_above_10) ==
    IF temperature_sum_above_10 <= 0
    THEN [gtk |-> None, interpretation |-> "no_data"]
    ELSE [gtk |-> Some(RoundScaled(precipitation_sum * 100, temperature_sum_above_10, 2)),
          interpretation |-> interpret_gtk(precipitation_sum, temperature_sum_above_10),
          precipitation_sum |-> precipitation_sum,
          temperature_sum |-> temperature_sum_above_10]

\* pd.Series(precip).rolling(window=timescale).sum().dropna()
RollingSums(precip, timescale) ==
    [j \in 1..Max(0, Len(precip) - timescale + 1) |->
        SumSeq(SubSeq(precip, j, j + timescale - 1))]

\* calculate_spi: the gamma fit and the normal quantile are scipy's; their outcome
\* for the series is the argument fit, None when the fit raises, else the latest
\* SPI in hundredths. Of spi_values only the length is kept.
calculate_spi(precipitation_series, timescale, fit) ==
    LET rolling_precip == IF timescale > 1
                          THEN RollingSums(precipitation_series, timescale)
                          ELSE precipitation_series
        non_zero == {j \in 1..Len(rolling_precip) : rolling_precip[j] > 0}
    IN  IF Cardinality(non_zero) < 10
        THEN [spi_values |-> None, latest_spi |-> None,
              interpretation |-> "insufficient_data"]
        ELSE IF fit = None
             THEN [spi_values |-> None, latest_spi |-> None,
                   interpretation |-> "fit_error"]
             ELSE [spi_values |-> Some(Len(rolling_precip)), latest_spi |-> fit,
                   interpretation |-> "computed", timescale |-> timescale]

\* -ln(x) for 0 < x < 1 in 1/SC, by bisection on ExpNeg over [lo, hi]
RECURSIVE NegLn(_, _, _)
NegLn(x, lo, hi) ==
    IF hi - lo <= 1 THEN lo
    ELSE LET mid == (lo + hi) \div 2
         IN  IF ExpNeg(mid) >= x THEN NegLn(x, mid, hi) ELSE NegLn(x, lo, mid)

\* variant: the index clipped to [-0.2, 1.0]
estimate_lai_from_ndvi_unclipped(ndvi_sum, n) ==
    LET ndvi_clipped == Clip(ndvi_sum, -200 * n, 1000 * n)
        numerator == Max(0, 690 * n - ndvi_clipped)
        ratio == Max(Quotient(numerator, 590 * n), SC \div 1000)
        lai == IF ratio >= SC THEN 0 ELSE (NegLn(ratio, 0, 8 * SC) * 100) \div 91
    IN  Clip(lai, 0, 8 * SC)

\* estimate_lai_from_ndvi of the mean of n values whose sum is ndvi_sum (thousandths);
\* the result in 1/SC
estimate_lai_from_ndvi(ndvi_sum, n) ==
    LET ndvi_clipped == Clip(ndvi_sum, -200 * n, 680 * n)
        numerator == 690 * n - ndvi_clipped
        ratio == Max(Quotient(numerator, 590 * n), SC \div 1000)
        lai == IF ratio >= SC THEN 0 ELSE (NegLn(ratio, 0, 8 * SC) * 100) \div 91
    IN  Clip(lai, 0, 8 * SC)

\* calculate_par_absorption: 1 - exp(-0.5 * lai), in 1/SC
calculate_par_absorption(lai) == SC - ExpNeg(lai \div 2)

\* sum of (t - 10) over the days with t > 10
\* variant: the sum of the active temperatures themselves
TempSumActive(temps) ==
    SumSeq([i \in 1..Len(temps) |-> IF temps[i] > 100 THEN temps[i] ELSE 0])

TempSumAbove10(temps) ==
    SumSeq([i \in 1..Len(temps) |-> IF temps[i] > 100 THEN temps[i] - 100 ELSE 0])

\* [d['ndvi'] for d in ndvi_data if 'ndvi' in d]
NdviValues(ndvi_data) ==
    LET RECURSIVE pick(_)
        pick(seq) == IF seq = <<>> THEN <<>>
                     ELSE (IF "ndvi" \in DOMAIN Head(seq) THEN <<Head(seq)["ndvi"]>> ELSE <<>>)
                          \o pick(Tail(seq))
    IN  pick(ndvi_data)

indices_gdd(climate_data) ==
    IF "temperature_avg" \in DOMAIN climate_data
    THEN Some(calculate_gdd(climate_data["temperature_avg"], 100, 300))
    ELSE None

indices_gtk(climate_data) ==
    LET temp_sum_above_10 == IF "temperature_avg" \in DOMAIN climate_data
                             THEN TempSumAbove10(climate_data["temperature_avg"])
                             ELSE 0
    IN  IF "precipitation_sum" \in DOMAIN climate_data /\ temp_sum_above_10 > 0
        THEN Some(calculate_gtk(climate_data["precipitation_sum"], temp_sum_above_10))
        ELSE None

indices_spi(climate_data, fit) ==
    IF "precipitation" \in DOMAIN climate_data
    THEN IF Len(climate_data["precipitation"]) >= 12
         THEN Some(calculate_spi(climate_data["precipitation"], 3, fit))
         ELSE Some([interpretation |-> "need_a_year"])
    ELSE None

indices_lai(ndvi_data) ==
    IF ndvi_data # None /\ ndvi_data[1] # <<>>
    THEN LET ndvi_values == NdviValues(ndvi_data[1])
         IN  IF ndvi_values # <<>>
             THEN LET lai == estimate_lai_from_ndvi(SumSeq(ndvi_values), Len(ndvi_values))
                  IN  Some([lai_estimated |-> Round(lai, SC \div 100),
                            fpar |-> Round(calculate_par_absorption(lai), SC \div 100),
                            ndvi_mean |-> Round(SumSeq(ndvi_values), Len(ndvi_values)),
                            based_on |-> "ndvi"])
             ELSE None
    ELSE None

\* variant: the SPI left out when the GTK could not be computed
calculate_all_indices_chained(climate_data, ndvi_data, fit) ==
    [gdd |-> indices_gdd(climate_data),
     gtk |-> indices_gtk(climate_data),
     spi |-> IF indices_gtk(climate_data) = None THEN None
             ELSE indices_spi(climate_data, fit),
     lai |-> indices_lai(ndvi_data)]

\* fit: what scipy's gamma fit yields for the precipitation series (see calculate_spi)
calculate_all_indices(climate_data, ndvi_data, fit) ==
    [gdd |-> indices_gdd(climate_data),
     gtk |-> indices_gtk(climate_data),
     spi |-> indices_spi(climate_data, fit),
     lai |-> indices_lai(ndvi_data)]

\* np.mean of a temperature series, to a tenth; NaN for the empty series
Mean(series) == IF series = <<>> THEN NaN ELSE Round(SumSeq(series), Len(series))

\* variant: each band including its lower bound
soil_moisture_of_inclusive(gtk) ==
    IF gtk >= 130 THEN 80
    ELSE IF gtk >= 100 THEN 70
    ELSE IF gtk >= 70 THEN 60
    ELSE 50

\* the soil moisture derived from the GTK band (GTK in hundredths)
soil_moisture_of(gtk) ==
    IF gtk > 130 THEN 80
    ELSE IF gtk > 100 THEN 70
    ELSE IF gtk > 70 THEN 60
    ELSE 50

\* the three groups of keys prepare_region_features sets, then the derived moisture;
\* l @@ r keeps l's value on a common key
climate_features(climate_data) ==
    IF climate_data # None /\ DOMAIN climate_data[1] # {}
    THEN LET c == climate_data[1]
         IN  [temperature_avg |-> Mean(Get(c, "temperature_avg", <<>>)),
              temperature_max |-> Get(c, "temperature_max", 300),
              temperature_min |-> Get(c, "temperature_min", -200),
              temperature_min_winter |-> Get(c, "temperature_min", -100),
              precipitation_sum |-> Get(c, "precipitation_sum", 0),
              precipitation_annual |-> Get(c, "precipitation_sum", 0),
              radiation_sum |-> Get(c, "radiation_sum", 0)]
    ELSE <<>>

soil_features(soil_data) ==
    IF soil_data # None /\ DOMAIN soil_data[1] # {}
    THEN LET texture == Get(soil_data[1], "texture", <<>>)
         IN  [soil_type |-> Get(texture, "texture_class", "unknown")]
    ELSE <<>>

index_features(indices) ==
    (IF Truthy(Get(indices, "gdd", None))
     THEN [gdd |-> Get(indices["gdd"][1], "total_gdd", 0)] ELSE <<>>)
    @@ (IF Truthy(Get(indices, "gtk", None))
        THEN [gtk |-> Get(indices["gtk"][1], "gtk", None)] ELSE <<>>)
    @@ (IF Truthy(Get(indices, "spi", None))
        THEN [spi |-> Get(indices["spi"][1], "latest_spi", None)] ELSE <<>>)
    @@ (IF Truthy(Get(indices, "lai", None))
        THEN [lai |-> Get(indices["lai"][1], "lai_estimated", 0)] ELSE <<>>)

prepare_region_features(climate_data, soil_data, indices) ==
    LET region_data == climate_features(climate_data) @@ soil_features(soil_data)
                       @@ index_features(indices)
        gtk == Get(region_data, "gtk", Some(100))[1]
    IN  IF "soil_moisture" \notin DOMAIN region_data
        THEN region_data @@ [soil_moisture |-> soil_moisture_of(gtk)]
        ELSE region_data

(***************************************************************************)
(* economics.py                                                            *)
(***************************************************************************)
\* gtk_factor, gdd_factor and spi_factor, each in twentieths
\* variant: the optimal band without its upper bound 1.5
gtk_factor_open(indices) ==
    IF Truthy(Get(indices, "gtk", None))
    THEN LET gtk == Get(indices["gtk"][1], "gtk", Some(100))[1]
         IN  IF 100 <= gtk /\ gtk < 150 THEN 22
             ELSE IF gtk < 70 THEN 16
             ELSE IF gtk > 180 THEN 18
             ELSE 20
    ELSE 20

gtk_factor(indices) ==
    IF Truthy(Get(indices, "gtk", None))
    THEN LET gtk == Get(indices["gtk"][1], "gtk", Some(100))[1]
         IN  IF 100 <= gtk /\ gtk <= 150 THEN 22
             ELSE IF gtk < 70 THEN 16
             ELSE IF gtk > 180 THEN 18
             ELSE 20
    ELSE 20

\* variant: no factor at all for a season without any heat
gdd_factor_zero(crop_name, indices) ==
    IF Truthy(Get(indices, "gdd", None)) /\ crop_name \in DOMAIN CROP_GDD_REQUIREMENTS
    THEN LET required_gdd == CROP_GDD_REQUIREMENTS[crop_name].total
             actual_gdd == Get(indices["gdd"][1], "total_gdd", 0)
         IN  IF actual_gdd >= 10 * required_gdd THEN 20
             ELSE IF actual_gdd >= 9 * required_gdd THEN 19
             ELSE IF actual_gdd >= 8 * required_gdd THEN 17
             ELSE IF actual_gdd > 0 THEN 14
             ELSE 0
    ELSE 20

gdd_factor(crop_name, indices) ==
    IF Truthy(Get(indices, "gdd", None)) /\ crop_name \in DOMAIN CROP_GDD_REQUIREMENTS
    THEN LET required_gdd == CROP_GDD_REQUIREMENTS[crop_name].total
             actual_gdd == Get(indices["gdd"][1], "total_gdd", 0)
         IN  IF actual_gdd >= 10 * required_gdd THEN 20
             ELSE IF actual_gdd >= 9 * required_gdd THEN 19
             ELSE IF actual_gdd >= 8 * required_gdd THEN 17
             ELSE 14
    ELSE 20

\* indices.get('spi') and indices['spi'].get('latest_spi') is not None
HasSpi(indices) ==
    /\ Truthy(Get(indices, "spi", None))
    /\ Get(indices["spi"][1], "latest_spi", None) # None

\* variant: an absent SPI taken for a severe drought
spi_factor_drought(indices) ==
    IF HasSpi(indices)
    THEN LET spi == indices["spi"][1]["latest_spi"][1]
         IN  IF spi < -150 THEN 15
             ELSE IF spi < -100 THEN 18
             ELSE IF spi > 150 THEN 19
             ELSE 20
    ELSE 15

spi_factor(indices) ==
    IF HasSpi(indices)
    THEN LET spi == indices["spi"][1]["latest_spi"][1]
         IN  IF spi < -150 THEN 15
             ELSE IF spi < -100 THEN 18
             ELSE IF spi > 150 THEN 19
             ELSE 20
    ELSE 20

\* base_yield * suitability_factor * gtk_factor * gdd_factor * spi_factor rounded to
\* one decimal: a = base_yield * (5000 + 7 * score) is the first product in 1/10000,
\* n = the three factors' product in 1/8000
RoundYield(a, n) ==
    LET low == (a % 1000) * n
        x == ((a \div 1000) * n) + (low \div 1000)
        r == ((x % 8000) * 1000) + (low % 1000)
        q == x \div 8000
    IN  IF 2 * r < 8000000 THEN q
        ELSE IF 2 * r > 8000000 THEN q + 1
        ELSE IF q % 2 = 0 THEN q ELSE q + 1

\* variant: an unknown crop estimated from a default base yield
estimate_yield_default(crop_name, suitability_score, indices) ==
    LET base_yield == Get(AVERAGE_YIELDS, crop_name, 30)
    IN  Some(RoundYield(base_yield * (5000 + suitability_score * 7),
                        gtk_factor(indices) * gdd_factor(crop_name, indices)
                            * spi_factor(indices)))

estimate_yield(crop_name, suitability_score, indices) ==
    IF crop_name \notin DOMAIN AVERAGE_YIELDS THEN None
    ELSE LET base_yield == AVERAGE_YIELDS[crop_name]
             suitability_factor == 5000 + suitability_score * 7
         IN  Some(RoundYield(base_yield * suitability_factor,
                             gtk_factor(indices) * gdd_factor(crop_name, indices)
                                 * spi_factor(indices)))

\* variant: the total without the category "other"
SumCostsWithoutOther(costs) ==
    costs.seeds + costs.fertilizers + costs.fuel + costs.pesticides
        + costs.machinery + costs.labor

\* sum(costs.values())
SumCosts(costs) ==
    costs.seeds + costs.fertilizers + costs.fuel + costs.pesticides
        + costs.machinery + costs.labor + costs.other

\* variant: the ROI taken from the revenue instead of the profit
calculate_profitability_gross(crop_name, yield_forecast) ==
    IF crop_name \notin DOMAIN REGIONAL_COSTS \/ crop_name \notin DOMAIN MARKET_PRICES
    THEN None
    ELSE LET costs == REGIONAL_COSTS[crop_name]
             total_costs == SumCosts(costs)
             price_per_ton == MARKET_PRICES[crop_name]
             revenue == yield_forecast * price_per_ton
             profit == revenue - 100 * total_costs
             roi == IF total_costs > 0 THEN RoundScaled(revenue, 100 * total_costs, 3) ELSE 0
             profitability == IF revenue > 0 THEN RoundScaled(profit, revenue, 3) ELSE 0
         IN  Some([costs |-> [total |-> total_costs,
                              breakdown |-> [k \in DOMAIN costs |-> costs[k]]],
                   revenue |-> Round(revenue, 100),
                   profit |-> Round(profit, 100),
                   roi_percent |-> roi,
                   profitability_percent |-> profitability,
                   breakeven_yield_cwt_per_ha |-> RoundScaled(total_costs, price_per_ton, 2),
                   price_per_ton |-> price_per_ton,
                   yield_tons_per_ha |-> yield_forecast])

\* money inside calculate_profitability is in 1/100 rouble: yield (tenths of c/ha)
\* times the price per ton is the revenue in that unit
calculate_profitability(crop_name, yield_forecast) ==
    IF crop_name \notin DOMAIN REGIONAL_COSTS \/ crop_name \notin DOMAIN MARKET_PRICES
    THEN None
    ELSE LET costs == REGIONAL_COSTS[crop_name]
             total_costs == SumCosts(costs)
             price_per_ton == MARKET_PRICES[crop_name]
             revenue == yield_forecast * price_per_ton
             profit == revenue - 100 * total_costs
             roi == IF total_costs > 0 THEN RoundScaled(profit, 100 * total_costs, 3) ELSE 0
             profitability == IF revenue > 0 THEN RoundScaled(profit, revenue, 3) ELSE 0
         IN  Some([costs |-> [total |-> total_costs,
                              breakdown |-> [k \in DOMAIN costs |-> costs[k]]],
                   revenue |-> Round(revenue, 100),
                   profit |-> Round(profit, 100),
                   roi_percent |-> roi,
                   profitability_percent |-> profitability,
                   breakeven_yield_cwt_per_ha |-> RoundScaled(total_costs, price_per_ton, 2),
                   price_per_ton |-> price_per_ton,
                   yield_tons_per_ha |-> yield_forecast])

drought_risk(indices) ==
    IF HasSpi(indices)
    THEN LET spi == indices["spi"][1]["latest_spi"][1]
         IN  IF spi < -200 THEN 90
             ELSE IF spi < -150 THEN 60
             ELSE IF spi < -100 THEN 30
             ELSE 10
    ELSE 20

frost_risk(climate_data, crop_name) ==
    IF Truthy(climate_data) /\ "temperature_min" \in DOMAIN climate_data[1]
    THEN LET T_min == climate_data[1]["temperature_min"]
         IN  IF InCatalog(crop_name)
             THEN LET frost_tolerance == ParamsOf(crop_name).frost_tolerance
                  IN  IF T_min < frost_tolerance - 50 THEN 80
                      ELSE IF T_min < frost_tolerance THEN 50
                      ELSE IF T_min < frost_tolerance + 20 THEN 20
                      ELSE 5
             ELSE 20
    ELSE 15

\* variant: GTK 2.0 itself counted as the highest tier
excess_moisture_risk_inclusive(indices) ==
    IF Truthy(Get(indices, "gtk", None))
    THEN LET gtk == Get(indices["gtk"][1], "gtk", Some(100))[1]
         IN  IF gtk >= 200 THEN 70
             ELSE IF gtk > 160 THEN 40
             ELSE 10
    ELSE 15

excess_moisture_risk(indices) ==
    IF Truthy(Get(indices, "gtk", None))
    THEN LET gtk == Get(indices["gtk"][1], "gtk", Some(100))[1]
         IN  IF gtk > 200 THEN 70
             ELSE IF gtk > 160 THEN 40
             ELSE 10
    ELSE 15

heat_deficit_risk(indices, crop_name) ==
    IF Truthy(Get(indices, "gdd", None))
    THEN IF crop_name \in DOMAIN CROP_GDD_REQUIREMENTS
         THEN LET required_gdd == CROP_GDD_REQUIREMENTS[crop_name].total
                  actual_gdd == Get(indices["gdd"][1], "total_gdd", 0)
              IN  IF 100 * actual_gdd < 750 * required_gdd THEN 80
                  ELSE IF actual_gdd < 9 * required_gdd THEN 50
                  ELSE IF actual_gdd < 10 * required_gdd THEN 20
                  ELSE 5
         ELSE 20
    ELSE 25

\* the hazard weights, in percent
risk_weights ==
    [drought |-> 35, frost |-> 25, excess_moisture |-> 20, heat_deficit |-> 20]

\* variant: a total of exactly 20 / 40 / 60 kept in the lower band
interpret_risk_inclusive(total_risk) ==
    IF total_risk <= 2000 THEN "low"
    ELSE IF total_risk <= 4000 THEN "moderate"
    ELSE IF total_risk <= 6000 THEN "elevated"
    ELSE "high"

\* the band of the unrounded total, in hundredths
interpret_risk(total_risk) ==
    IF total_risk < 2000 THEN "low"
    ELSE IF total_risk < 4000 THEN "moderate"
    ELSE IF total_risk < 6000 THEN "elevated"
    ELSE "high"

recommendation_of(interpretation) ==
    CASE interpretation = "low" -> "favourable"
      [] interpretation = "moderate" -> "standard_practice"
      [] interpretation = "elevated" -> "extra_protection"
      [] OTHER -> "consider_alternatives"

assess_climate_risks(climate_data, indices, crop_name) ==
    LET risk_scores == [drought |-> drought_risk(indices),
                        frost |-> frost_risk(climate_data, crop_name),
                        excess_moisture |-> excess_moisture_risk(indices),
                        heat_deficit |-> heat_deficit_risk(indices, crop_name)]
        total_risk == risk_scores.drought * risk_weights.drought
                      + risk_scores.frost * risk_weights.frost
                      + risk_scores.excess_moisture * risk_weights.excess_moisture
                      + risk_scores.heat_deficit * risk_weights.heat_deficit
        interpretation == interpret_risk(total_risk)
    IN  [total_risk |-> Round(total_risk, 10),
         interpretation |-> interpretation,
         recommendation |-> recommendation_of(interpretation),
         risk_breakdown |-> [k \in DOMAIN risk_scores |-> 10 * risk_scores[k]]]

\* variant: the profit score without its clamps
profit_score_unclamped(roi) == 500 + roi

\* variant: the profit score clamped from below only
profit_score_floored(roi) == Max(0, 500 + roi)

\* min(100, max(0, 50 + roi)), in tenths
profit_score(roi) == Min(1000, Max(0, 500 + roi))

\* 0.4 * suitability + 0.4 * profit_score + 0.2 * (100 - risk), in hundredths
weighted_rating(suitability_score, roi, risk) ==
    4 * suitability_score + 4 * profit_score(roi) + 2 * (1000 - risk)

calculate_final_rating(suitability_score, profitability, risk_assessment) ==
    LET roi == Get(profitability, "roi_percent", 0)
        risk == Get(risk_assessment, "total_risk", 500)
    IN  Round(weighted_rating(suitability_score, roi, risk), 10)

(***************************************************************************)
(* crop_recommender_handler.py: handle_crop_recommendation_request, from   *)
(* the climate data's arrival to the list handed to report generation.     *)
(* Every call of a core function is one step of the request making it.     *)
(***************************************************************************)
\* requests the bot may be serving at once
MaxRequests == 2

Requests == 1..MaxRequests

\* d[k] = v
Put(d, k, v) == [x \in DOMAIN d \cup {k} |-> IF x = k THEN v ELSE d[x]]

\* bool(yield_forecast): None and 0.0 are false
TruthyNumber(option) == option # None /\ option[1] # 0

\* bool(climate_data): None and the empty dict are false
TruthyDict(option) == option # None /\ DOMAIN option[1] # {}

\* the crop the for loop of request r is at
CurrentCrop(r) == top3_crops[r][crop_index[r]]

\* variant: an attachment that drops the criterion details
SetCurrentCropBare(r, k, v) ==
    top3_crops' = [top3_crops EXCEPT ![r][crop_index[r]] = Put(Put(@, k, v), "details", <<>>)]

SetCurrentCrop(r, k, v) ==
    top3_crops' = [top3_crops EXCEPT ![r][crop_index[r]] = Put(@, k, v)]

Goto(r, label) == pc' = [pc EXCEPT ![r] = label]

\* if not climate_data: return
NoClimateData(r) ==
    /\ pc[r] = "climate"
    /\ ~TruthyDict(input[r].climate_data)
    /\ Goto(r, "failed")
    /\ UNCHANGED <<tables, call, input, req_indices, req_region_data, top3_crops, crop_index,
                   report>>

\* indices = calculate_all_indices(climate_data, ndvi_timeseries)
CalculateIndices(r) ==
    /\ pc[r] = "climate"
    /\ TruthyDict(input[r].climate_data)
    /\ req_indices' = [req_indices EXCEPT ![r] =
                      Some(calculate_all_indices(input[r].climate_data[1],
                                                 input[r].ndvi_data, input[r].fit))]
    /\ Goto(r, "features")
    /\ UNCHANGED <<tables, call, input, req_region_data, top3_crops, crop_index, report>>

\* region_data = prepare_region_features(climate_data, soil_data, indices)
PrepareFeatures(r) ==
    /\ pc[r] = "features"
    /\ req_region_data' = [req_region_data EXCEPT ![r] =
                          Some(prepare_region_features(input[r].climate_data,
                                                       input[r].soil_data, req_indices[r][1]))]
    /\ Goto(r, "rank")
    /\ UNCHANGED <<tables, call, input, req_indices, top3_crops, crop_index, report>>

\* top3_crops = get_top_n_crops(region_data, n=3), then the for loop is entered
TopCrops(r) ==
    /\ pc[r] = "rank"
    /\ LET top == get_top_n_crops(req_region_data[r][1], 3)
       IN  /\ top3_crops' = [top3_crops EXCEPT ![r] = top]
           /\ crop_index' = [crop_index EXCEPT ![r] = 1]
           /\ Goto(r, IF top = <<>> THEN "sort" ELSE "yield")
    /\ UNCHANGED <<tables, call, input, req_indices, req_region_data, report>>

\* crop['yield_forecast'] = estimate_yield(crop_name, crop['suitability_score'], indices)
EstimateYield(r) ==
    /\ pc[r] = "yield"
    /\ SetCurrentCrop(r, "yield_forecast",
                      estimate_yield(CurrentCrop(r).crop, CurrentCrop(r).suitability_score,
                                     req_indices[r][1]))
    /\ Goto(r, "economics")
    /\ UNCHANGED <<tables, call, input, req_indices, req_region_data, crop_index, report>>

\* variant: the profitability step clearing the crop's other costs in the table
ProfitabilityInPlace(r) ==
    /\ pc[r] = "economics"
    /\ SetCurrentCrop(r, "economics",
                      IF TruthyNumber(CurrentCrop(r).yield_forecast)
                      THEN calculate_profitability(CurrentCrop(r).crop,
                                                   CurrentCrop(r).yield_forecast[1])
                      ELSE None)
    /\ REGIONAL_COSTS' = [c \in DOMAIN REGIONAL_COSTS |->
                             IF c = CurrentCrop(r).crop
                             THEN [REGIONAL_COSTS[c] EXCEPT !.other = 0]
                             ELSE REGIONAL_COSTS[c]]
    /\ Goto(r, "risks")
    /\ UNCHANGED <<CROP_PARAMETERS, MARKET_PRICES, AVERAGE_YIELDS, CROP_GDD_REQUIREMENTS,
                   call, input, req_indices, req_region_data, crop_index, report>>

\* crop['economics'] = calculate_profitability(...) if yield_forecast else None
Profitability(r) ==
    /\ pc[r] = "economics"
    /\ SetCurrentCrop(r, "economics",
                      IF TruthyNumber(CurrentCrop(r).yield_forecast)
                      THEN calculate_profitability(CurrentCrop(r).crop,
                                                   CurrentCrop(r).yield_forecast[1])
                      ELSE None)
    /\ Goto(r, "risks")
    /\ UNCHANGED <<tables, call, input, req_indices, req_region_data, crop_index, report>>

\* crop['risks'] = assess_climate_risks(climate_data, indices, crop_name)
AssessRisks(r) ==
    /\ pc[r] = "risks"
    /\ SetCurrentCrop(r, "risks",
                      assess_climate_risks(input[r].climate_data, req_indices[r][1],
                                           CurrentCrop(r).crop))
    /\ Goto(r, "rating")
    /\ UNCHANGED <<tables, call, input, req_indices, req_region_data, crop_index, report>>

\* variant: the rating computed from the formula whether or not economics exist
FinalRatingWithoutFallback(r) ==
    /\ pc[r] = "rating"
    /\ SetCurrentCrop(r, "final_rating",
                      calculate_final_rating(CurrentCrop(r).suitability_score,
                                             IF Truthy(CurrentCrop(r).economics)
                                             THEN CurrentCrop(r).economics[1] ELSE <<>>,
                                             CurrentCrop(r).risks))
    /\ IF crop_index[r] < Len(top3_crops[r])
       THEN /\ crop_index' = [crop_index EXCEPT ![r] = @ + 1]
            /\ Goto(r, "yield")
       ELSE /\ Goto(r, "sort")
            /\ UNCHANGED crop_index
    /\ UNCHANGED <<tables, call, input, req_indices, req_region_data, report>>

\* crop['final_rating'] = calculate_final_rating(...) if crop['economics'] else
\* crop['suitability_score']; then the loop moves to the next crop or ends
FinalRating(r) ==
    /\ pc[r] = "rating"
    /\ SetCurrentCrop(r, "final_rating",
                      IF Truthy(CurrentCrop(r).economics)
                      THEN calculate_final_rating(CurrentCrop(r).suitability_score,
                                                  CurrentCrop(r).economics[1],
                                                  CurrentCrop(r).risks)
                      ELSE CurrentCrop(r).suitability_score)
    /\ IF crop_index[r] < Len(top3_crops[r])
       THEN /\ crop_index' = [crop_index EXCEPT ![r] = @ + 1]
            /\ Goto(r, "yield")
       ELSE /\ Goto(r, "sort")
            /\ UNCHANGED crop_index
    /\ UNCHANGED <<tables, call, input, req_indices, req_region_data, report>>

\* variant: the ranker's order kept for the report
SortBySuitability(r) ==
    /\ pc[r] = "sort"
    /\ top3_crops' = [top3_crops EXCEPT ![r] = SortDesc(@, "suitability_score")]
    /\ Goto(r, "report")
    /\ UNCHANGED <<tables, call, input, req_indices, req_region_data, crop_index, report>>

\* top3_crops.sort(key=lambda x: x['final_rating'], reverse=True)
SortByFinalRating(r) ==
    /\ pc[r] = "sort"
    /\ top3_crops' = [top3_crops EXCEPT ![r] = SortDesc(@, "final_rating")]
    /\ Goto(r, "report")
    /\ UNCHANGED <<tables, call, input, req_indices, req_region_data, crop_index, report>>

\* generate_crop_recommendation(top3_crops, ...) / format_final_report(top3_crops, ...)
Report(r) ==
    /\ pc[r] = "report"
    /\ report' = [report EXCEPT ![r] = Some(top3_crops[r])]
    /\ Goto(r, "done")
    /\ UNCHANGED <<tables, call, input, req_indices, req_region_data, top3_crops, crop_index>>

NextRequest ==
    \E r \in Requests :
        \/ NoClimateData(r)
        \/ CalculateIndices(r)
        \/ PrepareFeatures(r)
        \/ TopCrops(r)
        \/ EstimateYield(r)
        \/ Profitability(r)
        \/ AssessRisks(r)
        \/ FinalRating(r)
        \/ SortByFinalRating(r)
        \/ Report(r)

\* a request that has not arrived
IdleRequest == [climate_data |-> None, soil_data |-> None, ndvi_data |-> None, fit |-> None]

\* no direct call in progress
NoCall == [op |-> "none", done |-> TRUE, result |-> None]

\* the state of the requests in Init: request r has the inputs arrived[r], or is idle
RequestsInit(arrived) ==
    /\ input = [r \in Requests |-> IF r \in DOMAIN arrived THEN arrived[r] ELSE IdleRequest]
    /\ pc = [r \in Requests |-> IF r \in DOMAIN arrived THEN "climate" ELSE "idle"]
    /\ req_indices = [r \in Requests |-> None]
    /\ req_region_data = [r \in Requests |-> None]
    /\ top3_crops = [r \in Requests |-> <<>>]
    /\ crop_index = [r \in Requests |-> 0]
    /\ report = [r \in Requests |-> None]

\* n days at temperature t
Constant(n, t) == [d \in 1..n |-> t]

\* daily series stand for the year the handler fetches, shortened to MaxDays days
MaxDays == 150

TemperatureSeries ==
    {<<80, 120, 160>>, Constant(MaxDays, 280), Constant(MaxDays, 190), Constant(100, 250)}
\* twelve periods with rain in the last one only
DryYear == [d \in 1..12 |-> IF d = 12 THEN 30 ELSE 0]

PrecipitationSeries == {<<100, 0, 200>>, Constant(12, 25), Constant(12, 50), DryYear}
FitOutcomes == {None, Some(-160), Some(0)}
WinterMinimums == {-250, -40}
RadiationSums == {1500, 4200}
SoilData ==
    {None, Some([texture |-> [texture_class |-> "loam"]]),
     Some([texture |-> [texture_class |-> "sand"]])}
NdviData == {None, Some(<<[ndvi |-> 450], [date |-> 1]>>)}

\* the SPI fit has an outcome only when calculate_spi reaches it
FitsFor(climate_data) ==
    LET rolling_precip == RollingSums(climate_data["precipitation"], 3)
    IN  IF /\ Len(climate_data["precipitation"]) >= 12
           /\ Cardinality({j \in 1..Len(rolling_precip) : rolling_precip[j] > 0}) >= 10
        THEN FitOutcomes ELSE {None}

\* climate_api.py: fetch_era5_extended_data returns every key, the sums being those
\* of the daily series; the keys the core reads are kept
ClimateData ==
    {[temperature_avg |-> t, temperature_min |-> tmin, precipitation |-> p,
      precipitation_sum |-> SumSeq(p), radiation_sum |-> q] :
        t \in TemperatureSeries, tmin \in WinterMinimums, p \in PrecipitationSeries,
        q \in RadiationSums}

RequestInputs ==
    {[climate_data |-> c, soil_data |-> soil, ndvi_data |-> ndvi, fit |-> fit] :
        c \in Opt(ClimateData), soil \in SoilData, ndvi \in NdviData,
        fit \in FitOutcomes}

\* the fit's outcome matters only where calculate_spi reaches the fit
Arrivable(request) ==
    request.fit \in (IF request.climate_data = None THEN {None}
                     ELSE FitsFor(request.climate_data[1]))

InitRequest ==
    /\ TablesInitial
    /\ call = NoCall
    /\ \E request \in RequestInputs :
         /\ Arrivable(request)
         /\ RequestsInit(1 :> request)

(***************************************************************************)
(* Direct calls of the scorer and the ranker: the arguments are drawn in   *)
(* the initial state and one action applies the function.                  *)
(***************************************************************************)
\* largest n passed to get_top_n_crops
MaxN == 9

TemperatureValues == {80, 200, 330}
PrecipitationValues == {0, 300, 600}
PrecipitationSumValues == {650}
SoilTypeValues == {"loam", "sand"}
GddValues == {0, 14000, 30000}
SoilMoistureValues == {0, 65}
RadiationValues == {0, 4200}
WinterMinimumValues == {-250, -40}

\* crop identifiers passed by callers: the catalog's keys and identifiers outside it
CropIdentifiers ==
    {"wheat", "corn", "sunflower", "soybean", "barley", "rapeseed", "potato",
     "sugar_beet", "rice", "Wheat", ""}

RegionFeatures(t, pa, ps, so, g, m, q, f) ==
    DictOf([temperature_avg |-> t, precipitation_annual |-> pa,
            precipitation_sum |-> ps, soil_type |-> so, gdd |-> g,
            soil_moisture |-> m, radiation_sum |-> q, temperature_min_winter |-> f])

\* one criterion exercised alone: average temperatures from -10.0 to 50.0 degrees
\* and precipitation sums from 0 to 1000 mm
CriterionTemperatures == -100..500
CriterionPrecipitations == 0..1000

SuitabilityValues == {0, 335, 570, 1000}
YieldForecasts == {0, 105, 350, 2500}

\* a key of a dict: absent, or present holding None or one of the values
OptKey(values) == {None, Some(None)} \cup {Some(Some(v)) : v \in values}

\* the indices estimate_yield reads
YieldIndices ==
    {DictOf([gtk |-> gtk, gdd |-> gdd, spi |-> spi]) :
        gtk \in OptKey({[gtk |-> Some(60)], [gtk |-> Some(120)], [gtk |-> Some(190)]}),
        gdd \in OptKey({[total_gdd |-> 14000], [total_gdd |-> 30000]}),
        spi \in OptKey({[latest_spi |-> Some(-160)], [latest_spi |-> None]})}

\* the regions the ranking is exercised on: ties and distinct scores
RankRegions ==
    {RegionFeatures(t, pa, None, so, g, None, q, f) :
        t \in Opt({200}), pa \in Opt({300, 600}), so \in Opt(SoilTypeValues),
        g \in Opt({14000}), q \in Opt({4200}), f \in Opt(WinterMinimumValues)}

InitScore ==
    /\ TablesInitial
    /\ RequestsInit(<<>>)
    /\ \/ \E crop_name \in CropIdentifiers :
            \E t \in Opt(TemperatureValues), pa \in Opt(PrecipitationValues),
               ps \in Opt(PrecipitationSumValues), so \in Opt(SoilTypeValues),
               g \in Opt(GddValues), m \in Opt(SoilMoistureValues),
               q \in Opt(RadiationValues), f \in Opt(WinterMinimumValues) :
                call = [op |-> "calculate_suitability_score",
                        region_data |-> RegionFeatures(t, pa, ps, so, g, m, q, f),
                        crop_name |-> crop_name, done |-> FALSE, result |-> None]
       \/ \E crop_name \in CropIdentifiers, t \in CriterionTemperatures :
            call = [op |-> "calculate_suitability_score",
                    region_data |-> [temperature_avg |-> t],
                    crop_name |-> crop_name, done |-> FALSE, result |-> None]
       \/ \E crop_name \in CropIdentifiers, pa \in Opt(CriterionPrecipitations),
             ps \in Opt(CriterionPrecipitations) :
            /\ pa = None \/ ps = None
            /\ call = [op |-> "calculate_suitability_score",
                       region_data |-> DictOf([precipitation_annual |-> pa,
                                               precipitation_sum |-> ps]),
                       crop_name |-> crop_name, done |-> FALSE, result |-> None]
       \/ \E region_data \in RankRegions :
            call = [op |-> "rank_crops", region_data |-> region_data,
                    done |-> FALSE, result |-> None]
       \/ \E region_data \in RankRegions, n \in 0..MaxN :
            call = [op |-> "get_top_n_crops", region_data |-> region_data,
                    n |-> n, done |-> FALSE, result |-> None]
       \/ \E crop_name \in CropIdentifiers, suitability_score \in SuitabilityValues,
             indices \in YieldIndices :
            call = [op |-> "estimate_yield", crop_name |-> crop_name,
                    suitability_score |-> suitability_score, indices |-> indices,
                    done |-> FALSE, result |-> None]
       \/ \E crop_name \in CropIdentifiers, suitability_score \in SuitabilityValues,
             gtk \in Opt({0, 69, 70, 99, 100, 150, 151, 180, 181, 300}),
             ratio \in Opt({0, 7, 8, 9, 10, 11}), below \in {0, 1},
             spi \in OptKey({-300, -151, -150, -101, -100, 0, 150, 151, 300}) :
            LET required_gdd == Get(CROP_GDD_REQUIREMENTS, crop_name, [total |-> 1000]).total
                gdd == IF ratio = None THEN None
                       ELSE Some([total_gdd |-> Max(0, ratio[1] * required_gdd - below)])
            IN  call = [op |-> "estimate_yield", crop_name |-> crop_name,
                        suitability_score |-> suitability_score,
                        indices |-> DictOf([gtk |-> IF gtk = None THEN None
                                                    ELSE Some(Some([gtk |-> gtk])),
                                            gdd |-> IF gdd = None THEN None
                                                    ELSE Some(gdd),
                                            spi |-> IF spi = None THEN None
                                                    ELSE Some(Some([latest_spi |-> spi[1]]))]),
                        done |-> FALSE, result |-> None]
       \/ \E crop_name \in CropIdentifiers, yield_forecast \in YieldForecasts :
            call = [op |-> "calculate_profitability", crop_name |-> crop_name,
                    yield_forecast |-> yield_forecast, done |-> FALSE, result |-> None]
       \/ \E crop_name \in CropIdentifiers,
             T_min \in OptKey({-51, -50, -1, 0, 19, 20}),
             spi \in OptKey({-201, -200, -151, -150, -101, -100, 0}),
             gtk \in Opt({100, 160, 161, 200, 201}),
             ratio \in Opt({75, 90, 100}), below \in {0, 1} :
            LET frost_tolerance == IF InCatalog(crop_name)
                                   THEN ParamsOf(crop_name).frost_tolerance ELSE 0
                required_gdd == Get(CROP_GDD_REQUIREMENTS, crop_name, [total |-> 1000]).total
                climate_data == IF T_min = None THEN None
                                ELSE IF T_min[1] = None THEN Some([precipitation_sum |-> 0])
                                ELSE Some([temperature_min |-> frost_tolerance + T_min[1][1]])
                gdd == IF ratio = None THEN None
                       ELSE Some(Some([total_gdd |-> (ratio[1] * required_gdd) \div 10 - below]))
            IN  call = [op |-> "assess_climate_risks", climate_data |-> climate_data,
                        indices |-> DictOf([gtk |-> IF gtk = None THEN None
                                                    ELSE Some(Some([gtk |-> gtk])),
                                            gdd |-> gdd,
                                            spi |-> IF spi = None THEN None
                                                    ELSE Some(Some([latest_spi |-> spi[1]]))]),
                        crop_name |-> crop_name, done |-> FALSE, result |-> None]
       \/ \E t \in Opt({<<>>, <<80, 120, 160>>, <<200, 220>>}), ps \in Opt({0, 650}),
             q \in Opt({0, 4200}), tmin \in Opt(WinterMinimumValues), keys \in {0, 1},
             soil_data \in SoilData, gdd \in Opt({14000}),
             gtk \in Opt({0, 70, 71, 100, 101, 130, 131, 300}) :
            LET climate == DictOf([temperature_avg |-> t, precipitation_sum |-> ps,
                                   radiation_sum |-> q, temperature_min |-> tmin])
            IN  /\ keys = 0 => DOMAIN climate = {}
                /\ call = [op |-> "prepare_region_features",
                           climate_data |-> IF keys = 0 THEN None ELSE Some(climate),
                           soil_data |-> soil_data,
                           indices |-> DictOf([gdd |-> IF gdd = None THEN None
                                                       ELSE Some(Some([total_gdd |-> gdd[1]])),
                                               gtk |-> IF gtk = None THEN Some(None)
                                                       ELSE Some(Some([gtk |-> gtk]))]),
                           done |-> FALSE, result |-> None]

Return(result) == call' = [call EXCEPT !.done = TRUE, !.result = result]

CallSuitabilityScore ==
    /\ call.op = "calculate_suitability_score"
    /\ ~call.done
    /\ Return(calculate_suitability_score(call.region_data, call.crop_name))
    /\ UNCHANGED <<tables, requests>>

CallRankCrops ==
    /\ call.op = "rank_crops"
    /\ ~call.done
    /\ Return(rank_crops(call.region_data))
    /\ UNCHANGED <<tables, requests>>

CallTopN ==
    /\ call.op = "get_top_n_crops"
    /\ ~call.done
    /\ Return(get_top_n_crops(call.region_data, call.n))
    /\ UNCHANGED <<tables, requests>>

CallEstimateYield ==
    /\ call.op = "estimate_yield"
    /\ ~call.done
    /\ Return(estimate_yield(call.crop_name, call.suitability_score, call.indices))
    /\ UNCHANGED <<tables, requests>>

CallProfitability ==
    /\ call.op = "calculate_profitability"
    /\ ~call.done
    /\ Return(calculate_profitability(call.crop_name, call.yield_forecast))
    /\ UNCHANGED <<tables, requests>>

CallAssessRisks ==
    /\ call.op = "assess_climate_risks"
    /\ ~call.done
    /\ Return(assess_climate_risks(call.climate_data, call.indices, call.crop_name))
    /\ UNCHANGED <<tables, requests>>

CallPrepareFeatures ==
    /\ call.op = "prepare_region_features"
    /\ ~call.done
    /\ Return(prepare_region_features(call.climate_data, call.soil_data, call.indices))
    /\ UNCHANGED <<tables, requests>>

NextScore ==
    \/ CallPrepareFeatures
    \/ CallAssessRisks
    \/ CallSuitabilityScore
    \/ CallRankCrops
    \/ CallTopN
    \/ CallEstimateYield
    \/ CallProfitability

SpecScore == InitScore /\ [][NextScore]_vars

(***************************************************************************)
(* Properties of the scorer and the ranker, checked under SpecScore.       *)
(***************************************************************************)
Done(op) == call.op = op /\ call.done

ScoredCatalogCrop == Done("calculate_suitability_score") /\ InCatalog(call.crop_name)

InPercentRange(x) == 0 <= x /\ x <= 1000

\* C1: for a catalog crop and a region with any fields absent and non-negative
\* precipitation, GDD, soil moisture and radiation, the suitability score and every
\* entry of the breakdown lie in [0, 100]; the seven weights are 0.20, 0.20, 0.15,
\* 0.15, 0.10, 0.10, 0.10 and sum to 1.
C1_ScoreWithinRange ==
    /\ weights = [temperature |-> 20, precipitation |-> 20, soil |-> 15, gdd |-> 15,
                  moisture |-> 10, radiation |-> 10, frost |-> 10]
    /\ weights.temperature + weights.precipitation + weights.soil + weights.gdd
           + weights.moisture + weights.radiation + weights.frost = 100
    /\ (ScoredCatalogCrop /\ \A k \in {"precipitation_annual", "precipitation_sum", "gdd",
                                       "soil_moisture", "radiation_sum"} :
                                 k \in DOMAIN call.region_data => call.region_data[k] >= 0)
        => /\ call.result # None
           /\ InPercentRange(call.result[1].suitability_score)
           /\ DOMAIN call.result[1].scores_breakdown = Criteria
           /\ \A k \in Criteria : InPercentRange(call.result[1].scores_breakdown[k])

\* a catalog crop scored on a region with some fields absent, one criterion at 100
\* and one at 0
C1_Witness ==
    /\ ScoredCatalogCrop
    /\ "soil_type" \notin DOMAIN call.region_data
    /\ "soil_moisture" \in DOMAIN call.region_data
    /\ call.result[1].scores_breakdown.moisture = 1000
    /\ call.result[1].scores_breakdown.radiation = 0
    /\ call.result[1].suitability_score > 0

\* C2: a criterion whose input is absent scores its fixed fallback, 0.5 for
\* temperature, precipitation, soil type and GDD, 0.7 for soil moisture and
\* radiation, whatever other inputs are present, and a result is returned for every
\* combination of absent inputs.
C2_FallbackScores ==
    ScoredCatalogCrop =>
        /\ call.result # None
        /\ LET region == call.region_data
               breakdown == call.result[1].scores_breakdown
           IN  /\ "temperature_avg" \notin DOMAIN region => breakdown.temperature = 500
               /\ ("precipitation_annual" \notin DOMAIN region
                   /\ "precipitation_sum" \notin DOMAIN region)
                      => breakdown.precipitation = 500
               /\ "soil_type" \notin DOMAIN region => breakdown.soil = 500
               /\ "gdd" \notin DOMAIN region => breakdown.gdd = 500
               /\ "soil_moisture" \notin DOMAIN region => breakdown.moisture = 700
               /\ "radiation_sum" \notin DOMAIN region => breakdown.radiation = 700

\* radiation and GDD absent while temperature and soil moisture are present and
\* scored from their values
C2_Witness ==
    /\ ScoredCatalogCrop
    /\ DOMAIN call.region_data = {"temperature_avg", "soil_moisture", "soil_type"}
    /\ call.result[1].scores_breakdown.radiation = 700
    /\ call.result[1].scores_breakdown.gdd = 500
    /\ call.result[1].scores_breakdown.temperature = 1000
    /\ call.result[1].scores_breakdown.moisture = 0

\* C3, as stated: the winter minimum absent, the frost criterion scores 0.5, and a
\* region with every input absent scores 54.0.
C3_FrostNeutralAsStated ==
    ScoredCatalogCrop =>
        /\ "temperature_min_winter" \notin DOMAIN call.region_data
              => call.result[1].scores_breakdown.frost = 500
        /\ DOMAIN call.region_data = {} => call.result[1].suitability_score = 540

\* C3: the winter minimum absent, the frost criterion scores 0.8 (a low risk is
\* assumed), and a region with every input absent scores 57.0 for every crop.
C3_FrostFallback ==
    ScoredCatalogCrop =>
        /\ "temperature_min_winter" \notin DOMAIN call.region_data
              => call.result[1].scores_breakdown.frost = 800
        /\ DOMAIN call.region_data = {} => call.result[1].suitability_score = 570

\* a crop scored on the region with every input absent
C3_Witness ==
    /\ ScoredCatalogCrop
    /\ call.crop_name = "potato"
    /\ DOMAIN call.region_data = {}
    /\ call.result[1].scores_breakdown.frost = 800
    /\ call.result[1].suitability_score = 570

\* position of a crop in the catalog's iteration order
CatalogPosition(crop_name) ==
    CHOOSE i \in 1..Len(CROP_PARAMETERS) : CROP_PARAMETERS[i].crop = crop_name

\* one result per catalog crop, by non-increasing score, equal scores in catalog order
RankedInOrder(ranked) ==
    /\ Len(ranked) = Len(CROP_PARAMETERS)
    /\ \A i \in 1..Len(CROP_PARAMETERS) :
          Cardinality({j \in 1..Len(ranked) : ranked[j].crop = CROP_PARAMETERS[i].crop}) = 1
    /\ \A i, j \in 1..Len(ranked) :
          i < j => \/ ranked[i].suitability_score > ranked[j].suitability_score
                   \/ /\ ranked[i].suitability_score = ranked[j].suitability_score
                      /\ CatalogPosition(ranked[i].crop) < CatalogPosition(ranked[j].crop)

\* C4: rank_crops returns one result per catalog crop by non-increasing score,
\* equal scores in the catalog's order wheat, corn, sunflower, soybean, barley,
\* rapeseed, potato, sugar_beet; get_top_n_crops(region, n) returns the first
\* min(n, 8) elements of that sequence.
C4_RankingOrder ==
    /\ CatalogKeys = <<"wheat", "corn", "sunflower", "soybean", "barley", "rapeseed",
                       "potato", "sugar_beet">>
    /\ Done("rank_crops") => RankedInOrder(call.result)
    /\ Done("get_top_n_crops") =>
          LET ranked == rank_crops(call.region_data)
          IN  /\ RankedInOrder(ranked)
              /\ Len(call.result) = Min(call.n, 8)
              /\ \A i \in 1..Len(call.result) : call.result[i] = ranked[i]

\* more crops asked for than the catalog holds: all eight are returned, two of
\* them tie and two differ
C4_Witness ==
    /\ Done("get_top_n_crops")
    /\ call.n = 9
    /\ Len(call.result) = 8
    /\ \E i \in 1..7 :
          call.result[i].suitability_score = call.result[i + 1].suitability_score
    /\ call.result[1].suitability_score > call.result[8].suitability_score

\* C9: for an identifier that is not a key of the catalog, calculate_suitability_score,
\* estimate_yield and calculate_profitability return None, and no entry of a ranking
\* carries it.
C9_UnknownCrop ==
    /\ (/\ call.done
        /\ call.op \in {"calculate_suitability_score", "estimate_yield",
                        "calculate_profitability"}
        /\ ~InCatalog(call.crop_name))
           => call.result = None
    /\ (call.done /\ call.op \in {"rank_crops", "get_top_n_crops"})
           => \A i \in 1..Len(call.result) : InCatalog(call.result[i].crop)

\* the yield of a crop outside the catalog was asked for
C9_Witness ==
    /\ Done("estimate_yield")
    /\ call.crop_name = "rice"
    /\ call.suitability_score = 570
    /\ call.result = None

\* C11: for a catalog crop and an average temperature T, the temperature criterion
\* scores 1.0 when T lies in the crop's optimal range, both bounds included (so at
\* the midpoint of the range), and max(0, 1 - d/10) otherwise, d the distance in
\* degrees to the nearer bound: 0 from 10 degrees outside the range on, never negative.
C11_TemperatureScore ==
    (ScoredCatalogCrop /\ "temperature_avg" \in DOMAIN call.region_data) =>
        LET T == call.region_data["temperature_avg"]
            lo == ParamsOf(call.crop_name).T_opt_range[1]
            hi == ParamsOf(call.crop_name).T_opt_range[2]
            d == IF T < lo THEN lo - T ELSE T - hi
            score == call.result[1].scores_breakdown.temperature
        IN  /\ score >= 0
            /\ (lo <= T /\ T <= hi) => score = 1000
            /\ 2 * T = lo + hi => score = 1000
            /\ (T < lo \/ T > hi) => score = Max(0, 1000 - 10 * d)
            /\ (T <= lo - 100 \/ T >= hi + 100) => score = 0

\* barley (optimal 15..22) scored at 31.5 degrees, 9.5 degrees above the range
C11_Witness ==
    /\ ScoredCatalogCrop
    /\ call.crop_name = "barley"
    /\ call.region_data = [temperature_avg |-> 315]
    /\ call.result[1].scores_breakdown.temperature = 50

\* C12: for a catalog crop the optimal precipitation is at least the minimum, a
\* precipitation equal to the optimum scores 1.0 on the precipitation criterion, and
\* a precipitation P below the minimum scores (P / P_min) * 0.5, below 0.5.
C12_PrecipitationScore ==
    /\ \A i \in 1..Len(CROP_PARAMETERS) :
          CROP_PARAMETERS[i].precip_opt >= CROP_PARAMETERS[i].precip_min
    /\ (/\ ScoredCatalogCrop
        /\ \/ "precipitation_annual" \in DOMAIN call.region_data
           \/ "precipitation_sum" \in DOMAIN call.region_data)
         => LET P == IF "precipitation_annual" \in DOMAIN call.region_data
                     THEN call.region_data["precipitation_annual"]
                     ELSE call.region_data["precipitation_sum"]
                P_opt == ParamsOf(call.crop_name).precip_opt
                P_min == ParamsOf(call.crop_name).precip_min
                score == call.result[1].scores_breakdown.precipitation
            IN  /\ P = P_opt => score = 1000
                /\ (0 <= P /\ P < P_min) => /\ score = Round(500 * P, P_min)
                                            /\ score < 500

\* corn (minimum 500, optimum 700) scored at an annual precipitation of 700 mm
C12_Witness ==
    /\ ScoredCatalogCrop
    /\ call.crop_name = "corn"
    /\ call.region_data = [precipitation_annual |-> 700]
    /\ call.result[1].scores_breakdown.precipitation = 1000

\* the yield factors as tiers of the index value, in twentieths: the set of factors
\* whose tier holds the value
GtkTiers(g) ==
    {f \in {16, 18, 20, 22} :
        \/ f = 22 /\ 100 <= g /\ g <= 150
        \/ f = 16 /\ g < 70
        \/ f = 18 /\ g > 180
        \/ f = 20 /\ ((70 <= g /\ g < 100) \/ (150 < g /\ g <= 180))}

GddTiers(actual, required) ==
    {f \in {14, 17, 19, 20} :
        \/ f = 20 /\ actual >= 10 * required
        \/ f = 19 /\ actual >= 9 * required /\ actual < 10 * required
        \/ f = 17 /\ actual >= 8 * required /\ actual < 9 * required
        \/ f = 14 /\ actual < 8 * required}

SpiTiers(spi) ==
    {f \in {15, 18, 19, 20} :
        \/ f = 15 /\ spi < -150
        \/ f = 18 /\ -150 <= spi /\ spi < -100
        \/ f = 19 /\ spi > 150
        \/ f = 20 /\ -100 <= spi /\ spi <= 150}

\* the one-decimal values nearest to a x n, a in 1/10000 and n in 1/8000: one
\* value, or the two neighbours when the product lies exactly between them
NearestTenths(a, n) ==
    LET low == (a % 1000) * n
        x == ((a \div 1000) * n) + (low \div 1000)
        r == ((x % 8000) * 1000) + (low % 1000)
        q == x \div 8000
    IN  IF 2 * r < 8000000 THEN {q}
        ELSE IF 2 * r > 8000000 THEN {q + 1}
        ELSE {q, q + 1}

\* C21: for a crop of the base-yield table estimate_yield returns base_yield x
\* suitability_factor x gtk_factor x gdd_factor x spi_factor rounded to one decimal,
\* suitability_factor = 0.5 + (score/100) x 0.7; gtk_factor is 1.1 for GTK in
\* [1.0, 1.5], 0.8 below 0.7, 0.9 above 1.8, else 1.0; gdd_factor is 1.0 / 0.95 /
\* 0.85 / 0.7 for actual/required >= 1.0 / >= 0.9 / >= 0.8 / below; spi_factor is
\* 0.75 for SPI < -1.5, 0.9 for SPI < -1.0, 0.95 for SPI > 1.5, else 1.0; a factor
\* is 1.0 when its index is absent, and every index value falls in exactly one tier.
C21_YieldFormula ==
    (Done("estimate_yield") /\ call.crop_name \in DOMAIN AVERAGE_YIELDS)
        => LET gtk == Get(call.indices, "gtk", None)
               gdd == Get(call.indices, "gdd", None)
               spi == IF Get(call.indices, "spi", None) = None THEN None
                      ELSE call.indices["spi"][1].latest_spi
               G == IF gtk = None THEN {20} ELSE GtkTiers(gtk[1].gtk[1])
               D == IF gdd = None THEN {20}
                    ELSE GddTiers(gdd[1].total_gdd,
                                  CROP_GDD_REQUIREMENTS[call.crop_name].total)
               S == IF spi = None THEN {20} ELSE SpiTiers(spi[1])
               a == AVERAGE_YIELDS[call.crop_name] * (5000 + 7 * call.suitability_score)
           IN  /\ Cardinality(G) = 1 /\ Cardinality(D) = 1 /\ Cardinality(S) = 1
               /\ \A g \in G, d \in D, s \in S :
                      /\ call.result # None
                      /\ call.result[1] \in NearestTenths(a, g * d * s)

\* barley at 57.0 with GTK 1.5, exactly 0.9 of the required heat and SPI -1.5:
\* 32 x 0.899 x 1.1 x 0.95 x 0.9 = 27.1
C21_Witness ==
    /\ Done("estimate_yield")
    /\ call.crop_name = "barley"
    /\ call.suitability_score = 570
    /\ call.indices = [gtk |-> Some([gtk |-> Some(150)]),
                       gdd |-> Some([total_gdd |-> 13500]),
                       spi |-> Some([latest_spi |-> Some(-150)])]
    /\ call.result = Some(271)

\* the hazard tiers: SPI and GTK in hundredths, temperatures and heat sums in tenths
DroughtTier(spi) ==
    IF spi < -200 THEN 90 ELSE IF spi < -150 THEN 60 ELSE IF spi < -100 THEN 30 ELSE 10

FrostTier(T_min, frost_tolerance) ==
    IF T_min < frost_tolerance - 50 THEN 80
    ELSE IF T_min < frost_tolerance THEN 50
    ELSE IF T_min < frost_tolerance + 20 THEN 20
    ELSE 5

ExcessMoistureTier(gtk) ==
    IF gtk > 200 THEN 70 ELSE IF gtk > 160 THEN 40 ELSE 10

HeatDeficitTier(actual, required) ==
    IF 100 * actual < 750 * required THEN 80
    ELSE IF 100 * actual < 900 * required THEN 50
    ELSE IF 100 * actual < 1000 * required THEN 20
    ELSE 5

AssessedCatalogCrop == Done("assess_climate_risks") /\ InCatalog(call.crop_name)

\* C22: assess_climate_risks gives each hazard its tiered score: drought 90/60/30/10
\* for SPI < -2.0 / < -1.5 / < -1.0 / otherwise, 20 without an SPI; frost 80/50/20/5
\* for a minimum more than 5 degrees below the tolerance / below it / less than 2
\* degrees above it / otherwise, 15 without a minimum temperature; excess moisture
\* 70/40/10 for GTK > 2.0 / > 1.6 / otherwise, 15 without a GTK; heat deficit
\* 80/50/20/5 for a GDD ratio < 0.75 / < 0.9 / < 1.0 / otherwise, 25 without a GDD.
\* Each score is a function of its own input alone and is monotone in it: no
\* smaller SPI, minimum or heat sum has a lower tier, no smaller GTK a higher one.
C22_HazardTiers ==
    AssessedCatalogCrop
        => LET b == call.result.risk_breakdown
               spi == IF Get(call.indices, "spi", None) = None THEN None
                      ELSE call.indices["spi"][1].latest_spi
               gtk == Get(call.indices, "gtk", None)
               gdd == Get(call.indices, "gdd", None)
               T_min == IF call.climate_data = None THEN None
                        ELSE IF "temperature_min" \in DOMAIN call.climate_data[1]
                        THEN Some(call.climate_data[1].temperature_min)
                        ELSE None
               tolerance == ParamsOf(call.crop_name).frost_tolerance
               required == CROP_GDD_REQUIREMENTS[call.crop_name].total
           IN  /\ IF spi = None THEN b.drought = 200
                  ELSE /\ b.drought = 10 * DroughtTier(spi[1])
                       /\ \A y \in (spi[1] - 120)..spi[1] : 10 * DroughtTier(y) >= b.drought
               /\ IF T_min = None THEN b.frost = 150
                  ELSE /\ b.frost = 10 * FrostTier(T_min[1], tolerance)
                       /\ \A y \in (T_min[1] - 80)..T_min[1] :
                              10 * FrostTier(y, tolerance) >= b.frost
               /\ IF gtk = None THEN b.excess_moisture = 150
                  ELSE /\ b.excess_moisture = 10 * ExcessMoistureTier(gtk[1].gtk[1])
                       /\ \A y \in (gtk[1].gtk[1] - 120)..gtk[1].gtk[1] :
                              10 * ExcessMoistureTier(y) <= b.excess_moisture
               /\ IF gdd = None THEN b.heat_deficit = 250
                  ELSE /\ b.heat_deficit = 10 * HeatDeficitTier(gdd[1].total_gdd, required)
                       /\ \A y \in {(k * required) \div 10 - e : k \in {0, 75, 90, 100},
                                                                e \in {0, 1}} :
                              y <= gdd[1].total_gdd
                                  => 10 * HeatDeficitTier(y, required) >= b.heat_deficit

\* wheat (tolerance -18) with a minimum of exactly -23, SPI exactly -2.0, GTK exactly
\* 2.0 and exactly 0.75 of the required heat: each value is in the milder tier
C22_Witness ==
    /\ AssessedCatalogCrop
    /\ call.crop_name = "wheat"
    /\ call.climate_data = Some([temperature_min |-> -230])
    /\ call.indices = [gtk |-> Some([gtk |-> Some(200)]),
                       gdd |-> Some([total_gdd |-> 13500]),
                       spi |-> Some([latest_spi |-> Some(-200)])]
    /\ call.result.risk_breakdown
           = [drought |-> 600, frost |-> 500, excess_moisture |-> 400, heat_deficit |-> 500]

\* the band of a reported total (in tenths) and the recommendation paired with it
RiskBand(total_risk) ==
    IF total_risk < 200 THEN "low"
    ELSE IF total_risk < 400 THEN "moderate"
    ELSE IF total_risk < 600 THEN "elevated"
    ELSE "high"

RiskAdvice(band) ==
    CASE band = "low" -> "favourable"
      [] band = "moderate" -> "standard_practice"
      [] band = "elevated" -> "extra_protection"
      [] band = "high" -> "consider_alternatives"

\* C23 as stated: the total risk returned by assess_climate_risks equals drought x
\* 0.35 + frost x 0.25 + excess_moisture x 0.20 + heat_deficit x 0.20 (weights
\* summing to 1.0), lies within [0, 100], and the interpretation and recommendation
\* are those of the band of the reported total.
C23_TotalAsStated ==
    Done("assess_climate_risks")
        => LET b == call.result.risk_breakdown
               total == call.result.total_risk
           IN  /\ 100 * total = 35 * b.drought + 25 * b.frost + 20 * b.excess_moisture
                                + 20 * b.heat_deficit
               /\ 0 <= total /\ total <= 1000
               /\ call.result.interpretation = RiskBand(total)
               /\ call.result.recommendation = RiskAdvice(RiskBand(total))

\* C23, amended: the total risk returned by assess_climate_risks is drought x 0.35 +
\* frost x 0.25 + excess_moisture x 0.20 + heat_deficit x 0.20 (weights summing to
\* 1.0) rounded to one decimal, lies within [0, 100] for every combination of hazard tiers
\* and defaults, and the interpretation and recommendation are those of the band of
\* the reported total: < 20 low, < 40 moderate, < 60 elevated, otherwise high.
C23_TotalRisk ==
    Done("assess_climate_risks")
        => LET b == call.result.risk_breakdown
               total == call.result.total_risk
               weighted == 35 * b.drought + 25 * b.frost + 20 * b.excess_moisture
                           + 20 * b.heat_deficit
           IN  /\ risk_weights.drought + risk_weights.frost
                      + risk_weights.excess_moisture + risk_weights.heat_deficit = 100
               /\ Abs(100 * total - weighted) <= 50
               /\ 0 <= total /\ total <= 1000
               /\ call.result.interpretation = RiskBand(total)
               /\ call.result.recommendation = RiskAdvice(RiskBand(total))

\* wheat with a minimum 1.9 degrees above its tolerance and no index at all:
\* 20 x 0.35 + 20 x 0.25 + 15 x 0.20 + 25 x 0.20 is exactly 20.0, the first
\* value of the moderate band
C23_Witness ==
    /\ Done("assess_climate_risks")
    /\ call.crop_name = "wheat"
    /\ call.climate_data = Some([temperature_min |-> -161])
    /\ DOMAIN call.indices = {}
    /\ call.result.total_risk = 200
    /\ call.result.interpretation = "moderate"
    /\ call.result.recommendation = "standard_practice"

\* C24: in every SuitabilityResult the interpretation is the band of the reported
\* suitability_score (the weighted sum x 100 rounded to one decimal): high exactly
\* when the reported score is >= 80, good when it is >= 60 and < 80, moderate when
\* it is >= 40 and < 60, low otherwise, also when the sum rounds up onto a threshold.
C24_BandOfReportedScore ==
    ScoredCatalogCrop
        => LET r == call.result[1]
           IN  r.interpretation = IF r.suitability_score >= 800 THEN "high"
                                  ELSE IF r.suitability_score >= 600 THEN "good"
                                  ELSE IF r.suitability_score >= 400 THEN "moderate"
                                  ELSE "low"

\* the criterion scores (in thousandths) of a catalog crop for the region features
\* prepare_region_features returned
BreakdownFor(crop_name) ==
    calculate_suitability_score(call.result, crop_name)[1].scores_breakdown

\* C26: absence of an upstream climate value is carried through
\* prepare_region_features to the scorer as absence: when the climate data is present
\* but lacks the precipitation sum, the radiation sum, the minimum temperature or the
\* temperature series, the precipitation, radiation, frost or temperature criterion
\* gets the scorer's missing-input fallback score (0.5, 0.7, 0.8, 0.5) and not a
\* score computed from a substituted value.
C26_AbsenceCarried ==
    (Done("prepare_region_features") /\ TruthyDict(call.climate_data))
        => \A i \in 1..Len(CROP_PARAMETERS) :
               LET b == BreakdownFor(CROP_PARAMETERS[i].crop)
                   present == DOMAIN call.climate_data[1]
               IN  /\ "precipitation_sum" \notin present => b.precipitation = 500
                   /\ "radiation_sum" \notin present => b.radiation = 700
                   /\ "temperature_min" \notin present => b.frost = 800
                   /\ "temperature_avg" \notin present => b.temperature = 500

\* C30: prepare_region_features always sets soil_moisture, to the value of the GTK
\* band (0.8 for GTK > 1.3, 0.7 for GTK > 1.0, 0.6 for GTK > 0.7, otherwise 0.5) and
\* to 0.6 when no GTK is available, so for the region features it builds the
\* scorer's 0.7 missing-soil-moisture fallback is never applied and the moisture
\* criterion scores min(1, soil_moisture / crop minimum) for that derived value.
C30_DerivedSoilMoisture ==
    Done("prepare_region_features")
        => LET gtk == Get(call.indices, "gtk", None)
               W == Get(call.result, "soil_moisture", -1)
           IN  /\ W = IF gtk = None THEN 60
                      ELSE IF gtk[1].gtk[1] > 130 THEN 80
                      ELSE IF gtk[1].gtk[1] > 100 THEN 70
                      ELSE IF gtk[1].gtk[1] > 70 THEN 60
                      ELSE 50
               /\ \A i \in 1..Len(CROP_PARAMETERS) :
                      LET W_min == CROP_PARAMETERS[i].soil_moisture_min
                          scored == calculate_suitability_score(call.result,
                                                                CROP_PARAMETERS[i].crop)[1]
                      IN  /\ scored.details.moisture # "no_data_assumed"
                          /\ IF W >= W_min THEN scored.scores_breakdown.moisture = 1000
                             ELSE 2 * Abs(scored.scores_breakdown.moisture * W_min - 1000 * W)
                                      <= W_min

\* a GTK of exactly 0.7 is in the lowest band: soil_moisture 0.5, which scores
\* 0.5 / 0.6 = 0.833 for wheat
C30_Witness ==
    /\ Done("prepare_region_features")
    /\ Get(call.indices, "gtk", None) = Some([gtk |-> Some(70)])
    /\ call.result["soil_moisture"] = 50
    /\ BreakdownFor("wheat").moisture = 833

(***************************************************************************)
(* The recommendation request, and direct calls of calculate_final_rating. *)
(***************************************************************************)
RoiValues == {-3000, -1000, -500, -499, -1, 0, 1, 250, 499, 500, 501, 3000}
RiskValues == {0, 125, 500, 1000}

\* profitability and risk_assessment dicts, with and without the key read
ProfitabilityDicts == {<<>>} \cup {[roi_percent |-> roi] : roi \in RoiValues}
RiskDicts == {<<>>} \cup {[total_risk |-> risk] : risk \in RiskValues}

InitRating ==
    /\ TablesInitial
    /\ RequestsInit(<<>>)
    /\ \E suitability_score \in SuitabilityValues, profitability \in ProfitabilityDicts,
          risk_assessment \in RiskDicts :
         call = [op |-> "calculate_final_rating", suitability_score |-> suitability_score,
                 profitability |-> profitability, risk_assessment |-> risk_assessment,
                 done |-> FALSE, result |-> None]

CallFinalRating ==
    /\ call.op = "calculate_final_rating"
    /\ ~call.done
    /\ Return(Some(calculate_final_rating(call.suitability_score, call.profitability,
                                          call.risk_assessment)))
    /\ UNCHANGED <<tables, requests>>

\* a request, or a direct call of calculate_final_rating, or a direct call of
\* estimate_yield for a catalog crop at the ends of the score and index ranges
Init ==
    \/ InitRequest
    \/ InitRating
    \/ /\ TablesInitial
       /\ RequestsInit(<<>>)
       /\ \E i \in 1..Len(InitialCropParameters), suitability_score \in {0, 335, 1000},
             gtk \in Opt({0, 120, 300}), ratio \in Opt({0, 11}),
             spi \in OptKey({-300, 0, 300}) :
            LET crop_name == InitialCropParameters[i].crop
                required_gdd == InitialGddRequirements[crop_name].total
            IN  call = [op |-> "estimate_yield", crop_name |-> crop_name,
                        suitability_score |-> suitability_score,
                        indices |-> DictOf([gtk |-> IF gtk = None THEN None
                                                    ELSE Some(Some([gtk |-> gtk])),
                                            gdd |-> IF ratio = None THEN None
                                                    ELSE Some(Some([total_gdd |->
                                                             ratio[1] * required_gdd])),
                                            spi |-> IF spi = None THEN None
                                                    ELSE Some(Some([latest_spi |-> spi[1]]))]),
                        done |-> FALSE, result |-> None]

Next == NextRequest \/ CallFinalRating \/ CallEstimateYield

Spec == Init /\ [][Next]_vars

(***************************************************************************)
(* Properties of the final rating and of the request, checked under Spec.  *)
(***************************************************************************)
RatedDirectly == Done("calculate_final_rating")

\* the arguments calculate_final_rating reads, with its defaults
CallRoi == Get(call.profitability, "roi_percent", 0)
CallRisk == Get(call.risk_assessment, "total_risk", 500)

\* min(100, max(0, 50 + ROI%)) written out by cases, in tenths
ClampedProfit(roi) == IF roi <= -500 THEN 0 ELSE IF roi >= 500 THEN 1000 ELSE 500 + roi

\* C5: calculate_final_rating returns, rounded to one decimal,
\* 0.4 * suitability + 0.4 * profit_score + 0.2 * (100 - total_risk) with
\* profit_score = min(100, max(0, 50 + ROI%)), which is 0 for ROI <= -50%, 50 for
\* ROI 0% and 100 for ROI >= +50%; the rating does not decrease when suitability or
\* ROI grows, nor increase when the risk grows.
C5_RatingFormula ==
    RatedDirectly =>
          /\ call.result[1]
                = Round(4 * call.suitability_score + 4 * ClampedProfit(CallRoi)
                            + 2 * (1000 - CallRisk), 10)
          /\ \A s \in SuitabilityValues :
                s >= call.suitability_score
                   => calculate_final_rating(s, call.profitability, call.risk_assessment)
                         >= call.result[1]
          /\ \A roi \in RoiValues :
                roi >= CallRoi
                   => calculate_final_rating(call.suitability_score, [roi_percent |-> roi],
                                             call.risk_assessment) >= call.result[1]
          /\ \A risk \in RiskValues :
                risk >= CallRisk
                   => calculate_final_rating(call.suitability_score, call.profitability,
                                             [total_risk |-> risk]) <= call.result[1]

\* a rating with the profit score clamped from above: 0.4*57 + 0.4*100 + 0.2*87.5
C5_Witness ==
    /\ RatedDirectly
    /\ call.suitability_score = 570
    /\ CallRoi = 3000
    /\ CallRisk = 125
    /\ call.result[1] = 803

\* the crops of request r the loop has finished with: they carry a final rating
Rated(r) == {i \in 1..Len(top3_crops[r]) : "final_rating" \in DOMAIN top3_crops[r][i]}

\* C6: for a suitability score and a total risk in [0, 100] and any ROI, the final
\* rating lies in [0, 100]; so does every final rating the request attaches to a crop.
C6_RatingWithinRange ==
    /\ (RatedDirectly /\ InPercentRange(call.suitability_score) /\ InPercentRange(CallRisk))
          => InPercentRange(call.result[1])
    /\ \A r \in Requests : \A i \in Rated(r) :
          InPercentRange(top3_crops[r][i].final_rating)

\* a request whose crops were rated from the formula, one of them with an ROI above
\* +50% and one with a negative ROI
C6_Witness ==
    /\ pc[1] = "done"
    /\ Rated(1) = 1..3
    /\ \E i, j \in 1..3 :
          /\ Truthy(top3_crops[1][i].economics)
          /\ top3_crops[1][i].economics[1].roi_percent > 500
          /\ Truthy(top3_crops[1][j].economics)
          /\ top3_crops[1][j].economics[1].roi_percent < 0

\* every crop of the list carries the four attachments
FullyAttached(list) ==
    \A i \in 1..Len(list) :
        {"yield_forecast", "economics", "risks", "final_rating"} \subseteq DOMAIN list[i]

\* C7: the list handed to report generation is ordered by non-increasing
\* final_rating, and the re-sort is taken only when every crop of the list carries
\* its yield, economics, risks and final rating.
C7_ReportOrder ==
    \A r \in Requests :
        /\ pc[r] \in {"sort", "report", "done"} => FullyAttached(top3_crops[r])
        /\ report[r] # None =>
              /\ FullyAttached(report[r][1])
              /\ \A i \in 1..(Len(report[r][1]) - 1) :
                    report[r][1][i].final_rating >= report[r][1][i + 1].final_rating

\* a report whose order by final rating is not the ranker's order by suitability
C7_Witness ==
    /\ report[1] # None
    /\ Len(report[1][1]) = 3
    /\ \E i \in 1..2 :
          /\ report[1][1][i].final_rating > report[1][1][i + 1].final_rating
          /\ report[1][1][i].suitability_score < report[1][1][i + 1].suitability_score

\* the fields of a result record the Suitability Scorer produced
ScorerFields == {"crop", "suitability_score", "interpretation", "scores_breakdown", "details"}

\* entry e of request r carries the scorer's values for its crop and r's region
AsScored(r, e) ==
    LET scored == calculate_suitability_score(req_region_data[r][1], e.crop)
    IN  /\ scored # None
        /\ \A k \in ScorerFields : e[k] = scored[1][k]

\* C25: while the pipeline attaches yield_forecast, economics, risks and
\* final_rating to a crop's result record, the record's crop identifier,
\* suitability_score, interpretation, scores_breakdown and details stay what the
\* Suitability Scorer produced for that crop and region, also after the re-sort by
\* final rating and in the list presented.
C25_ScorerFieldsKept ==
    \A r \in Requests :
        /\ \A i \in 1..Len(top3_crops[r]) : AsScored(r, top3_crops[r][i])
        /\ report[r] # None => \A i \in 1..Len(report[r][1]) : AsScored(r, report[r][1][i])

\* a presented list of three crops, each with its four attachments, which the
\* re-sort has put in another order than the ranker's
C25_Witness ==
    /\ pc[1] = "done"
    /\ report[1] # None
    /\ Len(report[1][1]) = 3
    /\ \A i \in 1..3 :
          /\ {"yield_forecast", "economics", "risks", "final_rating"}
                 \subseteq DOMAIN report[1][1][i]
          /\ report[1][1][i].economics # None
    /\ report[1][1][1].suitability_score < report[1][1][2].suitability_score

\* the five tables hold the same keys, and the catalog's GDD requirement of a crop
\* is the total of the GDD-requirement table
TablesAgree ==
    LET keys == {CROP_PARAMETERS[i].crop : i \in 1..Len(CROP_PARAMETERS)}
    IN  /\ Cardinality(keys) = 8 /\ Len(CROP_PARAMETERS) = 8
        /\ DOMAIN REGIONAL_COSTS = keys /\ DOMAIN MARKET_PRICES = keys
        /\ DOMAIN AVERAGE_YIELDS = keys /\ DOMAIN CROP_GDD_REQUIREMENTS = keys
        /\ \A i \in 1..Len(CROP_PARAMETERS) :
               CROP_PARAMETERS[i].gdd_requirement
                   = CROP_GDD_REQUIREMENTS[CROP_PARAMETERS[i].crop].total

\* every crop of request r that has its final rating got it from the weighted
\* formula, its yield being positive and its economics computed
NeverFallback(r) ==
    \A i \in 1..Len(top3_crops[r]) :
        LET e == top3_crops[r][i]
        IN  "final_rating" \in DOMAIN e
                => /\ e.yield_forecast # None /\ e.yield_forecast[1] > 0
                   /\ e.economics # None
                   /\ e.final_rating = calculate_final_rating(e.suitability_score,
                                                              e.economics[1], e.risks)

\* C27 as stated: the fallback final_rating = suitability_score is never taken for
\* catalog crops: the five tables have the same eight keys (with equal GDD
\* requirements), and estimate_yield is strictly positive for every catalog crop,
\* score and combination of index values, at least 0.5 x 0.8 x 0.7 x 0.75 and at
\* most 1.2 x 1.1 times the base yield, so economics is computed and the weighted
\* formula is used for every top crop.
C27_YieldBoundsAsStated ==
    /\ TablesAgree
    /\ \A r \in Requests : NeverFallback(r)
    /\ Done("estimate_yield")
           => /\ call.result # None /\ call.result[1] > 0
              /\ 21 * AVERAGE_YIELDS[call.crop_name] <= 10 * call.result[1]
              /\ 10 * call.result[1] <= 132 * AVERAGE_YIELDS[call.crop_name]

\* C27, amended: as stated, the two bounds being those of the product before it is
\* rounded: the yield returned is that product rounded to one decimal, so it is
\* strictly positive and within 0.05 of the interval from 0.21 to 1.32 times the
\* base yield.
C27_NeverFallback ==
    /\ TablesAgree
    /\ \A r \in Requests : NeverFallback(r)
    /\ Done("estimate_yield")
           => LET base_yield == AVERAGE_YIELDS[call.crop_name]
                  factors == gtk_factor(call.indices) * gdd_factor(call.crop_name, call.indices)
                             * spi_factor(call.indices)
              IN  /\ call.result # None /\ call.result[1] > 0
                  /\ TruthyNumber(call.result)
                  /\ calculate_profitability(call.crop_name, call.result[1]) # None
                  /\ 16 * 14 * 15 <= factors /\ factors <= 22 * 20 * 20
                  /\ call.result[1] \in NearestTenths(base_yield * (5000 + 7 * call.suitability_score),
                                                     factors)
                  /\ 21 * base_yield - 5 <= 10 * call.result[1]
                  /\ 10 * call.result[1] <= 132 * base_yield + 5

\* a presented list of three crops, each rated by the weighted formula and not by
\* its suitability score
C27_Witness ==
    /\ pc[1] = "done"
    /\ report[1] # None
    /\ Len(report[1][1]) = 3
    /\ \A i \in 1..3 :
          /\ report[1][1][i].economics # None
          /\ report[1][1][i].yield_forecast[1] > 0
          /\ report[1][1][i].final_rating # report[1][1][i].suitability_score

\* number of non-zero sums of three consecutive periods of a precipitation series
NonZeroRolling(p) ==
    Cardinality({j \in 1..(Len(p) - 2) : p[j] + p[j + 1] + p[j + 2] > 0})

\* C16: when the precipitation series has fewer than 12 periods, or fewer than 10 of
\* its sums over three consecutive periods are non-zero, the SPI sub-result carries
\* no numeric latest SPI and an insufficient-data interpretation, the request goes
\* on, and the yield and the risks computed from the indices take the SPI as
\* absent: SPI factor 1.0, drought risk at its default of 20.
C16_SpiInsufficient ==
    \A r \in Requests :
        (/\ req_indices[r] # None
         /\ LET p == input[r].climate_data[1]["precipitation"]
            IN  Len(p) < 12 \/ NonZeroRolling(p) < 10)
        => LET p == input[r].climate_data[1]["precipitation"]
               indices == req_indices[r][1]
           IN  /\ pc[r] # "failed"
               /\ indices.spi # None
               /\ Get(indices.spi[1], "latest_spi", None) = None
               /\ indices.spi[1].interpretation =
                      (IF Len(p) < 12 THEN "need_a_year" ELSE "insufficient_data")
               /\ \A i \in 1..Len(top3_crops[r]) :
                     LET crop == top3_crops[r][i]
                     IN  /\ "yield_forecast" \in DOMAIN crop =>
                               crop.yield_forecast =
                                   Some(RoundYield(AVERAGE_YIELDS[crop.crop]
                                                       * (5000 + 7 * crop.suitability_score),
                                                   gtk_factor(indices)
                                                       * gdd_factor(crop.crop, indices) * 20))
                         /\ "risks" \in DOMAIN crop =>
                               crop.risks.risk_breakdown.drought = 200

\* a request over twelve periods with rain in the last one only has been reported
C16_Witness ==
    /\ pc[1] = "done"
    /\ input[1].climate_data[1]["precipitation"] = DryYear
    /\ req_indices[1][1].spi[1].interpretation = "insufficient_data"
    /\ Len(report[1][1]) = 3
    /\ \A i \in 1..3 : report[1][1][i].risks.risk_breakdown.drought = 200

(***************************************************************************)
(* The request under tables that miss a crop. The shipped cost, price and  *)
(* base-yield tables hold every catalog crop and every yield estimate is   *)
(* positive, so the branch of the handler that has no economics is taken   *)
(* only under other tables: here one table lacks one crop, or holds a base *)
(* yield of 0 for it.                                                      *)
(***************************************************************************)
\* dict minus one key
Without(d, key) == [k \in DOMAIN d \ {key} |-> d[k]]

TableVariants ==
    {[costs |-> InitialRegionalCosts, prices |-> InitialMarketPrices,
      yields |-> InitialAverageYields]}
    \cup {[costs |-> Without(InitialRegionalCosts, c), prices |-> InitialMarketPrices,
           yields |-> InitialAverageYields] : c \in DOMAIN InitialRegionalCosts}
    \cup {[costs |-> InitialRegionalCosts, prices |-> Without(InitialMarketPrices, c),
           yields |-> InitialAverageYields] : c \in DOMAIN InitialMarketPrices}
    \cup {[costs |-> InitialRegionalCosts, prices |-> InitialMarketPrices,
           yields |-> Without(InitialAverageYields, c)] : c \in DOMAIN InitialAverageYields}
    \cup {[costs |-> InitialRegionalCosts, prices |-> InitialMarketPrices,
           yields |-> [InitialAverageYields EXCEPT ![c] = 0]] :
             c \in DOMAIN InitialAverageYields}

CfgClimateData ==
    {[temperature_avg |-> t, temperature_min |-> -250, precipitation |-> p,
      precipitation_sum |-> SumSeq(p), radiation_sum |-> 4200] :
        t \in {Constant(100, 250), Constant(MaxDays, 190)},
        p \in {<<100, 0, 200>>, Constant(12, 50)}}

CfgInputs ==
    {[climate_data |-> c, soil_data |-> None, ndvi_data |-> None, fit |-> None] :
        c \in Opt(CfgClimateData)}

InitCfg ==
    /\ CROP_PARAMETERS = InitialCropParameters
    /\ CROP_GDD_REQUIREMENTS = InitialGddRequirements
    /\ \E variant \in TableVariants :
         /\ REGIONAL_COSTS = variant.costs
         /\ MARKET_PRICES = variant.prices
         /\ AVERAGE_YIELDS = variant.yields
    /\ call = NoCall
    /\ \E request \in CfgInputs : RequestsInit(1 :> request)

SpecCfg == InitCfg /\ [][NextRequest]_vars

\* C8: a crop whose economics could not be computed (no yield estimate, or the crop
\* missing from the cost or price table) gets its suitability_score as final_rating,
\* its risks are assessed all the same, and the request goes on to the remaining
\* crops and to the report.
C8_EconomicsFallback ==
    \A r \in Requests :
        /\ \A i \in Rated(r) :
              LET crop == top3_crops[r][i]
              IN  /\ crop.economics = None
                        <=> \/ ~TruthyNumber(crop.yield_forecast)
                            \/ crop.crop \notin DOMAIN REGIONAL_COSTS
                            \/ crop.crop \notin DOMAIN MARKET_PRICES
                  /\ crop.economics = None => crop.final_rating = crop.suitability_score
                  /\ crop.risks = assess_climate_risks(input[r].climate_data,
                                                       req_indices[r][1], crop.crop)
        /\ pc[r] = "yield" => Rated(r) = 1..(crop_index[r] - 1)
        /\ pc[r] \in {"sort", "report", "done"}
              => Len(top3_crops[r]) = 3 /\ Rated(r) = 1..3
        /\ pc[r] = "failed" => ~TruthyDict(input[r].climate_data)

\* the first crop had no economics and took its suitability score; the loop is at
\* the second crop
C8_Witness ==
    /\ pc[1] = "yield"
    /\ crop_index[1] = 2
    /\ top3_crops[1][1].economics = None
    /\ top3_crops[1][1].yield_forecast # None
    /\ top3_crops[1][1].final_rating = top3_crops[1][1].suitability_score
    /\ "total_risk" \in DOMAIN top3_crops[1][1].risks

(***************************************************************************)
(* Requests served at once: the steps of MaxRequests requests, each with   *)
(* inputs of its own, interleave.                                          *)
(***************************************************************************)
ConcClimateData ==
    {[temperature_avg |-> Constant(30, 250), temperature_min |-> -250,
      precipitation |-> Constant(12, 50), precipitation_sum |-> 600,
      radiation_sum |-> 4200],
     [temperature_avg |-> <<80, 120, 160>>, temperature_min |-> -40,
      precipitation |-> <<100, 0, 200>>, precipitation_sum |-> 300,
      radiation_sum |-> 1500]}

ConcInputs ==
    {[climate_data |-> c, soil_data |-> Some([texture |-> [texture_class |-> "loam"]]),
      ndvi_data |-> None, fit |-> None] : c \in Opt(ConcClimateData)}

InitConc ==
    /\ TablesInitial
    /\ call = NoCall
    /\ \E arrived \in [Requests -> ConcInputs] :
         /\ \A a, b \in Requests : a # b => arrived[a] # arrived[b]
         /\ RequestsInit(arrived)

SpecConc == InitConc /\ [][NextRequest]_vars

\* the body of the handler's for loop on one crop, as one function of the request
ExtendCrop(request, indices, crop) ==
    LET yield_forecast == estimate_yield(crop.crop, crop.suitability_score, indices)
        economics == IF TruthyNumber(yield_forecast)
                     THEN calculate_profitability(crop.crop, yield_forecast[1])
                     ELSE None
        risks == assess_climate_risks(request.climate_data, indices, crop.crop)
        final_rating == IF Truthy(economics)
                        THEN calculate_final_rating(crop.suitability_score, economics[1],
                                                    risks)
                        ELSE crop.suitability_score
    IN  Put(Put(Put(Put(crop, "yield_forecast", yield_forecast), "economics", economics),
                "risks", risks), "final_rating", final_rating)

\* the keys the handler's loop attaches to a ranked crop
Attachments == {"yield_forecast", "economics", "risks", "final_rating"}

\* a crop of the list as the ranker returned it
Ranked(crop) == [k \in DOMAIN crop \ Attachments |-> crop[k]]

\* C10: under every interleaving of the requests' calls of the core, the five tables
\* keep their initial contents and each call's result is the result of the same call
\* made alone on the caller's own arguments.
C10_NoInterference ==
    /\ TablesInitial
    /\ \A r \in Requests :
          /\ pc[r] = "failed" => ~TruthyDict(input[r].climate_data)
          /\ req_indices[r] # None =>
                req_indices[r][1] = calculate_all_indices(input[r].climate_data[1],
                                                          input[r].ndvi_data, input[r].fit)
          /\ req_region_data[r] # None =>
                req_region_data[r][1]
                    = prepare_region_features(input[r].climate_data, input[r].soil_data,
                                              req_indices[r][1])
          /\ pc[r] \in {"yield", "economics", "risks", "rating", "sort"} =>
                LET ranked == get_top_n_crops(req_region_data[r][1], 3)
                IN  /\ Len(top3_crops[r]) = Len(ranked)
                    /\ \A i \in 1..Len(ranked) :
                          /\ Ranked(top3_crops[r][i]) = ranked[i]
                          /\ \A k \in DOMAIN top3_crops[r][i] \cap Attachments :
                                top3_crops[r][i][k]
                                    = ExtendCrop(input[r], req_indices[r][1],
                                                 Ranked(top3_crops[r][i]))[k]
          /\ pc[r] \in {"report", "done"} =>
                LET ranked == get_top_n_crops(req_region_data[r][1], 3)
                IN  top3_crops[r]
                        = SortDesc([i \in 1..Len(ranked) |->
                                       ExtendCrop(input[r], req_indices[r][1], ranked[i])],
                                   "final_rating")
          /\ report[r] # None => report[r][1] = top3_crops[r]

\* two requests with different inputs, one reported while the other is inside its loop
C10_Witness ==
    /\ input[1] # input[2]
    /\ pc[1] = "done"
    /\ pc[2] = "risks"
    /\ crop_index[2] = 2
    /\ report[1] # None
    /\ report[1][1][1].crop # top3_crops[2][1].crop

(***************************************************************************)
(* The presented crops against the whole ranking, checked under Spec.      *)
(***************************************************************************)
\* the suitability score of a catalog crop for a region
ScoreOf(region_data, crop_name) ==
    calculate_suitability_score(region_data, crop_name)[1].suitability_score

\* crop p comes before crop c in the ranking: a higher score, or the same score and
\* an earlier place in the catalog
Outranks(region_data, p, c) ==
    \/ ScoreOf(region_data, p) > ScoreOf(region_data, c)
    \/ /\ ScoreOf(region_data, p) = ScoreOf(region_data, c)
       /\ CatalogPosition(p) < CatalogPosition(c)

CropsOf(list) == {list[i].crop : i \in 1..Len(list)}

\* C28: the re-sort by final rating only permutes the provisional top list: the
\* crops presented are exactly the three highest-ranked by suitability_score (ties
\* broken by catalog order), yield, economics, risks and final rating are computed
\* for those three only, and a crop ranked fourth or lower by suitability is never
\* presented, whatever its final rating would be.
C28_TopThreeOnly ==
    \A r \in Requests :
        pc[r] \in {"yield", "economics", "risks", "rating", "sort", "report", "done"}
            => LET region_data == req_region_data[r][1]
                   top == CropsOf(top3_crops[r])
               IN  /\ Len(top3_crops[r]) = 3 /\ Cardinality(top) = 3
                   /\ \A i \in 1..Len(CROP_PARAMETERS) :
                          LET c == CROP_PARAMETERS[i].crop
                          IN  c \notin top => \A p \in top : Outranks(region_data, p, c)
                   /\ report[r] # None
                          => Len(report[r][1]) = 3 /\ CropsOf(report[r][1]) = top

\* a presented list in another order than the ranker's, while the crop ranked fourth
\* would have got a higher final rating than the last crop presented
C28_Witness ==
    /\ pc[1] = "done"
    /\ report[1] # None
    /\ report[1][1][1].suitability_score < report[1][1][2].suitability_score
    /\ LET fourth == rank_crops(req_region_data[1][1])[4]
       IN  ExtendCrop(input[1], req_indices[1][1], fourth).final_rating
               > report[1][1][3].final_rating

(***************************************************************************)
(* Direct calls of indices.py: the arguments are drawn in the initial      *)
(* state and one action applies the function; a temperature series that    *)
(* has been evaluated can be evaluated again with one more day.            *)
(***************************************************************************)
\* longest temperature series drawn day by day
MaxSeries == 3

\* daily temperatures below T_base, at it, between the thresholds, at and above T_upper
DayTemperatures == {-50, 100, 101, 200, 300, 350}

RECURSIVE SeriesUpTo(_, _)
SeriesUpTo(values, n) ==
    IF n = 0 THEN {<<>>}
    ELSE LET shorter == SeriesUpTo(values, n - 1)
         IN  shorter \cup {Append(seq, v) : seq \in shorter, v \in values}

GddCall(T_avg, T_base, T_upper) ==
    [op |-> "calculate_gdd", T_avg |-> T_avg, T_base |-> T_base, T_upper |-> T_upper,
     done |-> FALSE, result |-> None, before |-> None]

\* (T_base, T_upper) are the defaults 10 and 30, or thresholds a caller passes
InitGdd ==
    \/ \E T_avg \in SeriesUpTo(DayTemperatures, MaxSeries),
          th \in {<<100, 300>>, <<50, 250>>} :
          call = GddCall(T_avg, th[1], th[2])
    \/ call = GddCall(Constant(365, 200), 100, 300)

CallGdd ==
    /\ call.op = "calculate_gdd"
    /\ ~call.done
    /\ Return(Some(calculate_gdd(call.T_avg, call.T_base, call.T_upper)))
    /\ UNCHANGED <<tables, requests>>

\* the same series with one more day at its end is evaluated
CallGddExtended ==
    /\ call.op = "calculate_gdd"
    /\ call.done
    /\ Len(call.T_avg) < MaxSeries
    /\ \E t \in DayTemperatures :
          LET T_avg == Append(call.T_avg, t)
          IN  call' = [call EXCEPT !.T_avg = T_avg,
                                   !.result = Some(calculate_gdd(T_avg, call.T_base,
                                                                 call.T_upper)),
                                   !.before = call.result]
    /\ UNCHANGED <<tables, requests>>

\* calculate_gtk: the temperature sum (tenths) negative, zero, tiny and ordinary
InitGtk ==
    \E precipitation_sum \in {0, 300, 650},
       temperature_sum \in {-50, 0, 1, 1000, 15000, 25000} :
        call = [op |-> "calculate_gtk", precipitation_sum |-> precipitation_sum,
                temperature_sum |-> temperature_sum, done |-> FALSE, result |-> None]

CallGtk ==
    /\ call.op = "calculate_gtk"
    /\ ~call.done
    /\ Return(Some(calculate_gtk(call.precipitation_sum, call.temperature_sum)))
    /\ UNCHANGED <<tables, requests>>

\* estimate_lai_from_ndvi: the index (thousandths) over [-1, 1]
InitLai ==
    \E ndvi \in {-1000, -200, 0, 100, 101, 450, 679, 680, 681, 689, 690, 691, 800, 1000} :
        call = [op |-> "estimate_lai_from_ndvi", ndvi |-> ndvi, done |-> FALSE,
                result |-> None]

CallLai ==
    /\ call.op = "estimate_lai_from_ndvi"
    /\ ~call.done
    /\ Return(Some(estimate_lai_from_ndvi(call.ndvi, 1)))
    /\ UNCHANGED <<tables, requests>>

\* calculate_all_indices: each key of climate_data present or absent, the NDVI
\* records absent, empty, without a value or with values
InitAllIndices ==
    \E t \in Opt({<<>>, <<50, 90>>, <<80, 120, 160>>, <<100, 300>>, <<350, 120>>}),
       ps \in Opt({0, 300}),
       p \in Opt({<<100, 0, 200>>, Constant(12, 25), DryYear}),
       ndvi_data \in {None, Some(<<>>), Some(<<[date |-> 1]>>),
                      Some(<<[ndvi |-> 450], [date |-> 1], [ndvi |-> 690]>>)},
       fit \in FitOutcomes :
        /\ fit \in (IF p = Some(Constant(12, 25)) THEN FitOutcomes ELSE {None})
        /\ call = [op |-> "calculate_all_indices",
                   climate_data |-> DictOf([temperature_avg |-> t, precipitation_sum |-> ps,
                                            precipitation |-> p]),
                   ndvi_data |-> ndvi_data, fit |-> fit, done |-> FALSE, result |-> None,
                   before |-> None, removed |-> ""]

CallAllIndices ==
    /\ call.op = "calculate_all_indices"
    /\ ~call.done
    /\ Return(Some(calculate_all_indices(call.climate_data, call.ndvi_data, call.fit)))
    /\ UNCHANGED <<tables, requests>>

\* the same inputs with one of them taken away are evaluated
CallAllIndicesWithout ==
    /\ call.op = "calculate_all_indices"
    /\ call.done
    /\ \/ \E k \in DOMAIN call.climate_data :
             LET climate_data == [x \in DOMAIN call.climate_data \ {k} |->
                                     call.climate_data[x]]
             IN  call' = [call EXCEPT !.climate_data = climate_data,
                                      !.result = Some(calculate_all_indices(
                                                     climate_data, call.ndvi_data, call.fit)),
                                      !.before = call.result,
                                      !.removed = k]
       \/ /\ call.ndvi_data # None
          /\ call' = [call EXCEPT !.ndvi_data = None,
                                  !.result = Some(calculate_all_indices(
                                                 call.climate_data, None, call.fit)),
                                  !.before = call.result,
                                  !.removed = "ndvi_data"]
    /\ UNCHANGED <<tables, requests>>

InitIdx ==
    /\ TablesInitial
    /\ RequestsInit(<<>>)
    /\ \/ InitGdd
       \/ InitGtk
       \/ InitLai
       \/ InitAllIndices

NextIdx ==
    \/ CallGdd
    \/ CallGddExtended
    \/ CallGtk
    \/ CallLai
    \/ CallAllIndices
    \/ CallAllIndicesWithout

SpecIdx == InitIdx /\ [][NextIdx]_vars

(***************************************************************************)
(* Properties of the indices, checked under SpecIdx.                       *)
(***************************************************************************)
\* C13: calculate_gdd returns a daily and a cumulative series as long as the input,
\* every daily value is max(0, min(T - T_base, T_upper - T_base)), so within
\* [0, T_upper - T_base]; the total is the last cumulative value, non-negative, 0 for
\* the empty series, and 3650 for 365 days at 20 degrees with T_base = 10.
C13_GddSeries ==
    Done("calculate_gdd") =>
        LET T == call.T_avg
            daily == call.result[1].daily_gdd
            cumulative == call.result[1].cumulative_gdd
            total == call.result[1].total_gdd
            cap == call.T_upper - call.T_base
        IN  /\ Len(daily) = Len(T)
            /\ Len(cumulative) = Len(T)
            /\ \A i \in 1..Len(T) :
                  /\ daily[i] = Max(0, Min(T[i] - call.T_base, cap))
                  /\ 0 <= daily[i] /\ daily[i] <= cap
                  /\ cumulative[i] = (IF i = 1 THEN 0 ELSE cumulative[i - 1]) + daily[i]
            /\ total = (IF Len(T) = 0 THEN 0 ELSE cumulative[Len(T)])
            /\ total >= 0
            /\ (T = Constant(365, 200) /\ call.T_base = 100) => total = 36500

\* 365 days at 20 degrees evaluated with the default thresholds
C13_Witness ==
    /\ Done("calculate_gdd")
    /\ call.T_avg = Constant(365, 200)
    /\ call.T_base = 100
    /\ call.result[1].total_gdd = 36500
    /\ Len(call.result[1].cumulative_gdd) = 365

\* C14: a day appended to a temperature series, whatever its temperature, leaves
\* the GDD total at least what it was, and the cumulative series of the extended
\* input begins with the cumulative series of the original.
C14_GddMonotone ==
    (Done("calculate_gdd") /\ call.before # None) =>
        LET old == call.before[1]
            new == call.result[1]
        IN  /\ new.total_gdd >= old.total_gdd
            /\ Len(new.cumulative_gdd) = Len(old.cumulative_gdd) + 1
            /\ SubSeq(new.cumulative_gdd, 1, Len(old.cumulative_gdd)) = old.cumulative_gdd

\* a day below T_base appended to a series with a positive total: the total stays
C14_Witness ==
    /\ Done("calculate_gdd")
    /\ call.before # None
    /\ call.T_avg[Len(call.T_avg)] < call.T_base
    /\ call.before[1].total_gdd > 0
    /\ call.result[1].total_gdd = call.before[1].total_gdd

\* the GTK in hundredths g is precipitation_sum / (0.1 * temperature_sum) to two
\* decimals, the temperature sum in tenths of a degree
IsGtkOf(g, precipitation_sum, temperature_sum) ==
    2 * Abs(g * temperature_sum - 10000 * precipitation_sum) <= temperature_sum

\* the sum of (T - 10) over the days of a series with T > 10, in tenths
RECURSIVE ActiveSum(_)
ActiveSum(temps) ==
    IF temps = <<>> THEN 0
    ELSE (IF Head(temps) > 100 THEN Head(temps) - 100 ELSE 0) + ActiveSum(Tail(temps))

\* C15: when the sum of (T_avg - 10) over the days with T_avg > 10 is at most 0, the
\* GTK is not computable whatever the precipitation: calculate_gtk returns a gtk of
\* None and calculate_all_indices no GTK sub-result; when the sum is positive the
\* GTK is precipitation_sum / (0.1 * sum), reported to two decimals.
C15_GtkNotComputable ==
    /\ Done("calculate_gtk") =>
          IF call.temperature_sum <= 0
          THEN call.result[1].gtk = None
          ELSE /\ call.result[1].gtk # None
               /\ IsGtkOf(call.result[1].gtk[1], call.precipitation_sum,
                           call.temperature_sum)
    /\ Done("calculate_all_indices") =>
          LET active == IF "temperature_avg" \in DOMAIN call.climate_data
                        THEN ActiveSum(call.climate_data["temperature_avg"]) ELSE 0
              gtk == call.result[1].gtk
          IN  /\ active <= 0 => gtk = None
              /\ (active > 0 /\ "precipitation_sum" \in DOMAIN call.climate_data)
                    => /\ gtk # None
                       /\ gtk[1].gtk # None
                       /\ IsGtkOf(gtk[1].gtk[1], call.climate_data["precipitation_sum"],
                                   active)

\* calculate_gtk called with precipitation and a temperature sum of exactly 0
C15_Witness ==
    /\ Done("calculate_gtk")
    /\ call.precipitation_sum = 650
    /\ call.temperature_sum = 0
    /\ call.result[1].gtk = None

\* C17, as stated: for a vegetation index of 0.69 or more the ratio is at its floor
\* 0.001 and the LAI is about 7.59 (-ln(0.001) / 0.91), within [0, 8].
C17_LaiFloorAsStated ==
    (Done("estimate_lai_from_ndvi") /\ call.ndvi >= 690) =>
        /\ 7580000 <= call.result[1]
        /\ call.result[1] <= 7600000

\* C17: the vegetation index is clipped to at most 0.68 before the ratio is taken,
\* so for an index of 0.68 or more (0.69 included) the ratio is 0.01 / 0.59, about
\* 0.0169, and the LAI about 4.48; the floor 0.001 of the ratio (an LAI of about
\* 7.59) is reached for no input, and every LAI lies within [0, 4.49].
C17_LaiClipped ==
    Done("estimate_lai_from_ndvi") =>
        /\ 0 <= call.result[1]
        /\ call.result[1] <= 4490000
        /\ call.ndvi >= 680 => Round(call.result[1], SC \div 100) = 448
        /\ call.ndvi <= 100 => call.result[1] = 0

\* the LAI of a vegetation index of 0.69
C17_Witness ==
    /\ Done("estimate_lai_from_ndvi")
    /\ call.ndvi = 690
    /\ Round(call.result[1], SC \div 100) = 448

\* the sub-results that read input k of calculate_all_indices
ReadersOf(k) ==
    IF k = "temperature_avg" THEN {"gdd", "gtk"}
    ELSE IF k = "precipitation_sum" THEN {"gtk"}
    ELSE IF k = "precipitation" THEN {"spi"}
    ELSE {"lai"}

\* C18: calculate_all_indices returns its four sub-results for every combination of
\* present and absent inputs; with one input taken away, the sub-results that read
\* it (GDD and GTK read temperature_avg, GTK precipitation_sum, SPI the
\* precipitation series, LAI the NDVI records) are None and every other sub-result
\* is what it was with that input present.
C18_IndependentIndices ==
    Done("calculate_all_indices") =>
        /\ DOMAIN call.result[1] = {"gdd", "gtk", "spi", "lai"}
        /\ call.result[1].gdd = None <=> "temperature_avg" \notin DOMAIN call.climate_data
        /\ call.result[1].spi = None <=> "precipitation" \notin DOMAIN call.climate_data
        /\ call.before # None =>
              \A sub \in {"gdd", "gtk", "spi", "lai"} :
                  IF sub \in ReadersOf(call.removed)
                  THEN call.result[1][sub] = None
                  ELSE call.result[1][sub] = call.before[1][sub]

\* the temperature series taken away from inputs that gave all four sub-results: the
\* SPI and the LAI stay, the GDD and the GTK are gone
C18_Witness ==
    /\ Done("calculate_all_indices")
    /\ call.before # None
    /\ call.removed = "temperature_avg"
    /\ \A sub \in {"gdd", "gtk", "spi", "lai"} : call.before[1][sub] # None
    /\ call.result[1].gdd = None
    /\ call.result[1].gtk = None
    /\ call.result[1].spi = call.before[1].spi
    /\ Get(call.result[1].spi[1], "latest_spi", None) # None
    /\ call.result[1].lai # None

\* C29: in calculate_all_indices with both temperature_avg and precipitation_sum
\* present, the GTK sub-result is None exactly when total_gdd (T_base = 10) is 0;
\* and when the GTK is computed and no daily temperature exceeds 30 degrees, the heat
\* sum used as its denominator equals total_gdd, so that GTK before rounding x 0.1 x
\* total_gdd = precipitation_sum (the GTK reported is that quotient to two decimals).
C29_GtkAndTotalGdd ==
    (/\ Done("calculate_all_indices")
     /\ {"temperature_avg", "precipitation_sum"} \subseteq DOMAIN call.climate_data)
        => LET temps == call.climate_data["temperature_avg"]
               total_gdd == call.result[1].gdd[1].total_gdd
               gtk == call.result[1].gtk
           IN  /\ gtk = None <=> total_gdd = 0
               /\ (gtk # None /\ \A i \in 1..Len(temps) : temps[i] <= 300)
                     => /\ gtk[1].temperature_sum = total_gdd
                        /\ gtk[1].precipitation_sum = call.climate_data["precipitation_sum"]
                        /\ gtk[1].gtk # None
                        /\ IsGtkOf(gtk[1].gtk[1], call.climate_data["precipitation_sum"],
                                    total_gdd)

\* days at exactly 10 and exactly 30 degrees with 300 mm: total_gdd and the GTK's
\* heat sum are both 20.0 and the GTK is 300 / (0.1 x 20) = 150
C29_Witness ==
    /\ Done("calculate_all_indices")
    /\ call.removed = ""
    /\ {"temperature_avg", "precipitation_sum"} \subseteq DOMAIN call.climate_data
    /\ call.climate_data["temperature_avg"] = <<100, 300>>
    /\ call.climate_data["precipitation_sum"] = 300
    /\ call.result[1].gdd[1].total_gdd = 200
    /\ call.result[1].gtk[1].temperature_sum = 200
    /\ call.result[1].gtk[1].gtk = Some(15000)

(***************************************************************************)
(* Direct calls of calculate_profitability under cost tables other than    *)
(* the shipped one. Every shipped crop has positive costs, so the branch   *)
(* for a total cost of 0 is taken only under another table: here one crop  *)
(* costs nothing, or wheat's category "other" is 1000 (a total of 24500).  *)
(* Prices are the shipped ones, all positive: the break-even yield divides *)
(* by the price without a guard.                                           *)
(***************************************************************************)
CostVariants ==
    {InitialRegionalCosts, [InitialRegionalCosts EXCEPT !["wheat"].other = 1000]}
    \cup {[InitialRegionalCosts EXCEPT ![c] = Costs(0, 0, 0, 0, 0, 0, 0)] :
             c \in DOMAIN InitialRegionalCosts}

InitEcon ==
    /\ CROP_PARAMETERS = InitialCropParameters
    /\ CROP_GDD_REQUIREMENTS = InitialGddRequirements
    /\ MARKET_PRICES = InitialMarketPrices
    /\ AVERAGE_YIELDS = InitialAverageYields
    /\ REGIONAL_COSTS \in CostVariants
    /\ RequestsInit(<<>>)
    /\ \E crop_name \in CropIdentifiers, yield_forecast \in YieldForecasts :
          call = [op |-> "calculate_profitability", crop_name |-> crop_name,
                  yield_forecast |-> yield_forecast, done |-> FALSE, result |-> None]

SpecEcon == InitEcon /\ [][CallProfitability]_vars

\* q is n / d * 1000 to the nearest integer (a percentage with one decimal), d > 0
IsPerMille(q, n, d) == 2 * Abs(q * d - 1000 * n) <= d

\* C19: calculate_profitability reports total_cost = the sum of the seven cost
\* categories, revenue = (yield / 10) * price, profit = revenue - total_cost,
\* ROI% = profit / total_cost * 100 and profitability% = profit / revenue * 100; the
\* ROI is 0 when the total cost is 0 and the profitability is 0 when the revenue is
\* 0; for a yield of 0 the profit is -total_cost and the ROI is -100%.
C19_Profitability ==
    (Done("calculate_profitability") /\ call.crop_name \in DOMAIN REGIONAL_COSTS) =>
        LET c == REGIONAL_COSTS[call.crop_name]
            total == c.seeds + c.fertilizers + c.fuel + c.pesticides + c.machinery
                     + c.labor + c.other
            revenue == (call.yield_forecast * MARKET_PRICES[call.crop_name]) \div 100
            profit == revenue - total
            e == call.result[1]
        IN  /\ call.result # None
            /\ DOMAIN c = {"seeds", "fertilizers", "fuel", "pesticides", "machinery",
                           "labor", "other"}
            /\ e.costs.total = total
            /\ e.revenue = revenue
            /\ e.profit = profit
            /\ IF total = 0 THEN e.roi_percent = 0
               ELSE IsPerMille(e.roi_percent, profit, total)
            /\ IF revenue = 0 THEN e.profitability_percent = 0
               ELSE IsPerMille(e.profitability_percent, profit, revenue)
            /\ (call.yield_forecast = 0 /\ total > 0)
                  => e.profit = -total /\ e.roi_percent = -1000

\* a crop that costs nothing, with a yield of 0: no cost and no revenue to divide by
C19_Witness ==
    /\ Done("calculate_profitability")
    /\ call.crop_name = "barley"
    /\ call.yield_forecast = 0
    /\ SumCosts(REGIONAL_COSTS["barley"]) = 0
    /\ call.result[1].roi_percent = 0
    /\ call.result[1].profitability_percent = 0
    /\ call.result[1].profit = 0

\* C20, as stated: wheat, priced at 15000 per ton, has a total cost of 24500, and at
\* a yield of 35 c/ha its revenue is 52500, its profit 28000 and its ROI 114.3%.
C20_WheatAsStated ==
    (/\ Done("calculate_profitability")
     /\ REGIONAL_COSTS = InitialRegionalCosts
     /\ call.crop_name = "wheat"
     /\ call.yield_forecast = 350)
    => /\ call.result[1].price_per_ton = 15000
       /\ call.result[1].costs.total = 24500
       /\ call.result[1].revenue = 52500
       /\ call.result[1].profit = 28000
       /\ call.result[1].roi_percent = 1143

\* C20: wheat, priced at 15000 per ton, has a total cost of 25000 in the shipped cost
\* table, and at a yield of 35 c/ha its revenue is 52500, its profit 27500 and its
\* ROI 110.0%; under a cost table where its total is 24500 the profit is 28000 and
\* the ROI 114.3%.
C20_WheatProfitability ==
    (/\ Done("calculate_profitability")
     /\ call.crop_name = "wheat"
     /\ call.yield_forecast = 350)
    => /\ call.result[1].price_per_ton = 15000
       /\ call.result[1].revenue = 52500
       /\ REGIONAL_COSTS = InitialRegionalCosts
             => /\ call.result[1].costs.total = 25000
                /\ call.result[1].profit = 27500
                /\ call.result[1].roi_percent = 1100
       /\ call.result[1].costs.total = 24500
             => /\ call.result[1].profit = 28000
                /\ call.result[1].roi_percent = 1143

\* the profitability of wheat at 35 c/ha under the shipped tables
C20_Witness ==
    /\ Done("calculate_profitability")
    /\ REGIONAL_COSTS = InitialRegionalCosts
    /\ call.crop_name = "wheat"
    /\ call.yield_forecast = 350
    /\ call.result[1].profit = 27500
    /\ call.result[1].roi_percent = 1100

====
